---- MODULE Spec2Model ----
(***************************************************************************)
(* Model of the CMake server protocol engine of vscode-cmake               *)
(* (src/src/cmake.ts, second revision of the module, lines 749-1744, and   *)
(* the helpers of src/src/utils.ts it calls).                              *)
(*                                                                         *)
(* The module-level variables of cmake.ts are the state; every exported    *)
(* verb, every callback registered in start() and every settings listener  *)
(* is one action.  A handler is written as an operator from a state record *)
(* to a state record, so that a handler that calls another one (restart    *)
(* calls stop and start, build calls configure, the exit handler calls     *)
(* stop) is the composition of the operators.                              *)
(***************************************************************************)
EXTENDS Integers, Sequences, FiniteSets, TLC

VARIABLES
    cmakeStarted,       \* _cmakeStarted
    cmakePid,           \* _cmakePid, NoPid when no subprocess is recorded
    cmakePipe,          \* _cmakePipe: "null", or the state of the socket it holds
    configured,         \* _configured
    postConfiguration,  \* _postConfiguration: "null" or the closure stored
    postHandshake,      \* _postHandshake: "null" or the callback stored
    targets,            \* _targets: the entries in insertion order
    kitSetting,         \* utils.settings "kit"
    configuration,      \* utils.settings "configuration"
    probes,             \* "--version" executions whose promise is not settled
    prompts,            \* "Continue anyway ?" warnings not answered yet
    timers,             \* setTimeout(connect, 10) timers not fired yet
    alive,              \* server subprocesses spawned and not exited
    signalled,          \* subprocesses process.kill() was called on
    nextPid,            \* the id the next spawned subprocess gets
    wire,               \* requests written to the socket and not answered
    helloDue,           \* the server of the socket has its hello to send
    disposed,           \* Cleanup.dispose ran (extension deactivated)
    ev,                 \* what the last handler did (requests, launches, log)
    stream,             \* codec runs: the bytes the server still has to deliver
    fed,                \* codec runs: the messages receiveMessage was given
    utilsRun,           \* runs of a helper of utils.ts: its objects and last call
    sentCount           \* runs of the chain: the requests sent so far, by type

vars == << cmakeStarted, cmakePid, cmakePipe, configured, postConfiguration,
           postHandshake, targets, kitSetting, configuration, probes, prompts,
           timers, alive, signalled, nextPid, wire, helloDue, disposed, ev,
           stream, fed, utilsRun, sentCount >>

(***************************************************************************)
(* Bounds of the model.                                                    *)
(***************************************************************************)
MaxProcs == 1          \* servers spawned in a run of the whole session
MaxWire == 1           \* requests written and not answered yet
MaxPending == 1        \* version checks and warnings open at once
LifeMaxProcs == 3      \* servers spawned in a run of the lifecycle alone
LifeMaxPending == 2    \* version checks and warnings open in such a run
MaxFrames == 2         \* frames of a byte stream
VerbMaxProcs == 2      \* servers spawned in a run of the verbs
VerbMaxWire == 2       \* requests written and not answered in such a run
VerbMaxPending == 2    \* version checks and warnings open in such a run
StartMaxProcs == 2     \* servers spawned in a run of the start attempts
StartMaxPending == 2   \* version checks and warnings open in such a run
MaxUrlLen == 3         \* characters of a property url
MaxCalls == 2          \* calls of a helper of utils.ts in a run of it
MaxArgs == 2           \* arguments after the key in a call of utils.call
MaxSettingOps == 4     \* calls of settings.set and settings.on on one setting
MaxListeners == 2      \* listeners registered on one setting
PendingMaxWire == 2    \* requests written and not answered in a run of pending verbs
HandMaxProcs == 2      \* servers spawned in a run of the handshakes
HandMaxPending == 1    \* version checks and warnings open in such a run
ChainMaxWire == 2      \* requests written and not answered in a run of the chain
ChainMaxSent == 2      \* configure requests sent in such a run

(***************************************************************************)
(* Program constants.                                                      *)
(***************************************************************************)
NoPid == -1
BaseCookie == "simple-cmake"
ForeignCookie == "other-session"
MinMajor == 3
MinMinor == 12

(***************************************************************************)
(* Sequence helpers.                                                       *)
(***************************************************************************)
SeqToSet(seq) == { seq[i] : i \in 1..Len(seq) }

IndexOfName(entries, name) ==
    IF \E i \in 1..Len(entries) : entries[i].name = name
    THEN CHOOSE i \in 1..Len(entries) : entries[i].name = name
    ELSE 0

(***************************************************************************)
(* Targets (cmake.ts 818-882).  TargetType is a const enum 0..4.           *)
(***************************************************************************)
Executable == 0
SharedLibrary == 1
StaticLibrary == 2
Utility == 3
Unsupported == 4

GetType(type) ==
    CASE type = "EXECUTABLE" -> Executable
      [] type = "SHARED_LIBRARY" -> SharedLibrary
      [] type = "STATIC_LIBRARY" -> StaticLibrary
      [] type = "UTILITY" -> Utility
      [] OTHER -> Unsupported

\* String.prototype.toLowerCase on the configuration names of the model.
ToLowerCase(str) ==
    CASE str \in {"Debug", "DEBUG", "debug"} -> "debug"
      [] str \in {"Release", "RELEASE", "release"} -> "release"
      [] OTHER -> str

\* _targets[name] = new Target(name, type): an object keeps the position of a
\* key it already has and appends a new one.
SetTarget(entries, name, type) ==
    LET i == IndexOfName(entries, name)
    IN  IF i = 0 THEN Append(entries, [name |-> name, type |-> type])
        ELSE [entries EXCEPT ![i] = [name |-> name, type |-> type]]

\* A loop over the targets that ends at the first target of an unsupported type.
RECURSIVE ParseTargets_StopAtUnsupported(_, _)
ParseTargets_StopAtUnsupported(acc, ts) ==
    IF ts = << >> THEN acc
    ELSE LET t == Head(ts)
         IN  IF t.name = "undefined" THEN ParseTargets_StopAtUnsupported(acc, Tail(ts))
             ELSE IF GetType(t.type) = Unsupported THEN acc
             ELSE ParseTargets_StopAtUnsupported(
                      [acc EXCEPT !.targets = SetTarget(acc.targets, t.name, GetType(t.type)),
                                  !.foundTarget = TRUE], Tail(ts))

\* The body of the loop over project["targets"] (cmake.ts 1520-1537); acc
\* carries _targets and foundTarget.
RECURSIVE ParseTargets(_, _)
ParseTargets(acc, ts) ==
    IF ts = << >> THEN acc
    ELSE LET t == Head(ts)
             next ==
                 IF t.name = "undefined" THEN acc
                 ELSE IF GetType(t.type) = Unsupported THEN acc
                 ELSE [acc EXCEPT !.targets = SetTarget(acc.targets, t.name, GetType(t.type)),
                                  !.foundTarget = TRUE]
         IN  ParseTargets(next, Tail(ts))

\* The loop over config["projects"] (cmake.ts 1511-1539).
RECURSIVE ParseProjects(_, _)
ParseProjects(acc, ps) ==
    IF ps = << >> THEN acc
    ELSE LET p == Head(ps)
             next == IF ~p.hasTargets THEN acc ELSE ParseTargets(acc, p.targets)
         IN  ParseProjects(next, Tail(ps))

\* The loop over codemodel["configurations"] (cmake.ts 1501-1542).
\* getConfiguration() is undefined until the user picks one: calling
\* toLowerCase on it throws a TypeError in the first iteration.
RECURSIVE ParseConfigurations(_, _, _)
ParseConfigurations(acc, cs, variant) ==
    IF cs = << >> \/ acc.threw THEN acc
    ELSE LET c == Head(cs)
             next ==
                 IF variant = "undefined" THEN [acc EXCEPT !.threw = TRUE]
                 ELSE IF ToLowerCase(c.name) # ToLowerCase(variant) THEN acc
                 ELSE IF ~c.hasProjects THEN [acc EXCEPT !.foundConfiguration = TRUE]
                 ELSE ParseProjects([acc EXCEPT !.foundConfiguration = TRUE], c.projects)
         IN  ParseConfigurations(next, Tail(cs), variant)

\* A parse that starts from the targets of the previous parse.
ClearTargets_Keep(prev) == prev

\* "clear previous targets": _targets = {} (cmake.ts 1489-1490).
ClearTargets(prev) == << >>

\* A parse whose error checks look at the targets before the configuration.
ParseCodemodel_TargetCheckFirst(prev, codemodel, variant) ==
    LET cleared == [targets |-> ClearTargets(prev), foundConfiguration |-> FALSE,
                    foundTarget |-> FALSE, threw |-> FALSE]
    IN  IF ~codemodel.hasConfigurations
        THEN [targets |-> cleared.targets, outcome |-> "noConfigurationsField"]
        ELSE LET acc == ParseConfigurations(cleared, codemodel.configurations, variant)
             IN  [targets |-> acc.targets,
                  outcome |-> IF acc.threw THEN "threw"
                              ELSE IF ~acc.foundTarget THEN "noTarget"
                              ELSE IF ~acc.foundConfiguration THEN "noConfiguration"
                              ELSE "ok"]

\* parseCodemodel (cmake.ts 1486-1555): the new value of _targets and the
\* outcome: "ok" (returns true), the error logged (returns false), or "threw".
ParseCodemodel(prev, codemodel, variant) ==
    LET cleared == [targets |-> ClearTargets(prev), foundConfiguration |-> FALSE,
                    foundTarget |-> FALSE, threw |-> FALSE]
    IN  IF ~codemodel.hasConfigurations
        THEN [targets |-> cleared.targets, outcome |-> "noConfigurationsField"]
        ELSE LET acc == ParseConfigurations(cleared, codemodel.configurations, variant)
             IN  [targets |-> acc.targets,
                  outcome |-> IF acc.threw THEN "threw"
                              ELSE IF ~acc.foundConfiguration THEN "noConfiguration"
                              ELSE IF ~acc.foundTarget THEN "noTarget"
                              ELSE "ok"]

\* A codemodel reply without a "configurations" field.
NoCodemodel == [hasConfigurations |-> FALSE, configurations |-> << >>]

\* getTargets (cmake.ts 1456-1462).
GetTargetsOf(entries) == << "[all]" >> \o [i \in 1..Len(entries) |-> entries[i].name]

(***************************************************************************)
(* Messages of the server.  Every message record has the same fields; a    *)
(* field a message type does not carry holds "undefined" (or the empty     *)
(* codemodel).                                                             *)
(***************************************************************************)
Msg(type, name, inReplyTo, cookie, majors, codemodel) ==
    [type |-> type, name |-> name, inReplyTo |-> inReplyTo, cookie |-> cookie,
     majors |-> majors, codemodel |-> codemodel]

Plain(type) == Msg(type, "undefined", "undefined", "undefined", {}, NoCodemodel)
Signal(name) == Msg("signal", name, "undefined", "undefined", {}, NoCodemodel)
Hello(majors) == Msg("hello", "undefined", "undefined", "undefined", majors, NoCodemodel)
Reply(inReplyTo, cookie) == Msg("reply", "undefined", inReplyTo, cookie, {}, NoCodemodel)
CodemodelReply(cookie, codemodel) == Msg("reply", "undefined", "codemodel", cookie, {}, codemodel)
ErrorMsg(inReplyTo) == Msg("error", "undefined", inReplyTo, BaseCookie, {}, NoCodemodel)

\* The bytes on the pipe, as tokens; the start marker and the end marker
\* (cmake.ts 1199, 1201, 1284-1285).
Tok(k, part, m) == [k |-> k, part |-> part, m |-> m]
StartMarker == Tok("S", 0, Plain("undefined"))
EndMarker == Tok("E", 0, Plain("undefined"))

(***************************************************************************)
(* The handlers, as operators on a record s of the state they read and     *)
(* write.  s.sent, s.launched and s.log collect what the handler did.      *)
(***************************************************************************)
\* The Result of utils.execute (utils.ts 29-45), as far as start() reads it;
\* stdout is a sequence of tokens.  NoResult: no execution was settled.
Result(settled, stdout, error) == [settled |-> settled, stdout |-> stdout, error |-> error]

NoResult == Result("none", << >>, "")

Cur(op) ==
    [ started |-> cmakeStarted, pid |-> cmakePid, pipe |-> cmakePipe,
      configured |-> configured, postConfiguration |-> postConfiguration,
      postHandshake |-> postHandshake, targets |-> targets,
      kit |-> kitSetting, configuration |-> configuration,
      probes |-> probes, prompts |-> prompts, timers |-> timers,
      alive |-> alive, signalled |-> signalled, nextPid |-> nextPid,
      wire |-> wire, helloDue |-> helloDue,
      sent |-> << >>, launched |-> << >>, log |-> {op}, ret |-> << >>,
      payload |-> NoCodemodel, dispatched |-> << >>, probed |-> NoResult,
      written |-> << >>, changed |-> {} ]

Log(s, tag) == [s EXCEPT !.log = @ \cup {tag}]

\* isRunning (cmake.ts 1386-1388).
IsRunning(s) == s.pid # NoPid /\ s.pipe # "null"

\* getKit (cmake.ts 1428-1430): undefined unless the setting names a kit.
KitSelected(s) == s.kit # "undefined"

\* A stop that signals the subprocess and keeps its id recorded.
StopKill_KeepPid(s) ==
    IF s.pid # NoPid
    THEN [s EXCEPT !.signalled = @ \cup {s.pid}, !.log = @ \cup {"kill"}]
    ELSE s

\* stop (cmake.ts 974-992).
StopKill(s) ==
    IF s.pid # NoPid
    THEN [s EXCEPT !.pid = NoPid,
                   !.signalled = @ \cup {s.pid},
                   !.log = @ \cup {"kill"}]
    ELSE s

\* A stop that ends the pipe and keeps it recorded.
StopPipe_KeepPipe(s) ==
    IF s.pipe # "null"
    THEN [s EXCEPT !.wire = << >>, !.helloDue = FALSE, !.log = @ \cup {"pipeEnd"}]
    ELSE s

StopPipe(s) ==
    IF s.pipe # "null"
    THEN [s EXCEPT !.pipe = "null", !.wire = << >>, !.helloDue = FALSE,
                   !.log = @ \cup {"pipeEnd"}]
    ELSE s

StopOp(s) ==
    [StopPipe(StopKill(s)) EXCEPT !.started = FALSE]

\* The message a caller hands to sendMessage, as far as the model reads it.
Request(type) == [type |-> type]

\* The handshake request of the hello case (cmake.ts 1082-1087): the values
\* of getSourceDirectory(), getBuildDirectory() and the generator setting.
HandshakeRequest ==
    [type |-> "handshake", sourceDirectory |-> "getSourceDirectory",
     buildDirectory |-> "getBuildDirectory", generator |-> "generatorSetting"]

\* JSON.stringify(message), written in one piece (cmake.ts 1200).
Json(message) == [k |-> "json", text |-> message]

\* "add common stuff" (cmake.ts 1195-1196): the two assignments replace the
\* fields when the message has them and add them when it has not.
Stamp(message) ==
    [ key \in DOMAIN message \cup {"protocolVersion", "cookie"} |->
        CASE key = "protocolVersion" -> [major |-> 1]
          [] key = "cookie" -> BaseCookie
          [] OTHER -> message[key] ]

\* A sendMessage whose cookie is made anew for every server.
SendMessage_CookiePerServer(s, message) ==
    LET stamped == [Stamp(message) EXCEPT !.cookie = IF s.pid = 1 THEN BaseCookie
                                                     ELSE ForeignCookie]
        s1 == [s EXCEPT !.sent = Append(@, stamped.type),
                        !.written = @ \o << StartMarker, Json(stamped), EndMarker >>]
    IN  IF s.pipe = "failed" THEN s1
        ELSE [s1 EXCEPT !.wire = Append(@, stamped.type)]

\* sendMessage (cmake.ts 1190-1202).  A write on a socket whose connection
\* attempt failed is lost.
SendMessage(s, message) ==
    LET stamped == Stamp(message)
        s1 == [s EXCEPT !.sent = Append(@, stamped.type),
                        !.written = @ \o << StartMarker, Json(stamped), EndMarker >>]
    IN  IF s.pipe = "failed" THEN s1
        ELSE [s1 EXCEPT !.wire = Append(@, stamped.type)]

\* start (cmake.ts 1207-1226), up to the call of utils.execute("--version").
\* Both callers (initialize, restart) pass no callback.
StartOp(s) ==
    IF s.started THEN s
    ELSE LET s1 == [s EXCEPT !.started = TRUE]
         IN  IF ~KitSelected(s1) THEN Log(s1, "noKit")
             ELSE [s1 EXCEPT !.probes = @ + 1]

\* connect (cmake.ts 1264-1293): a new socket replaces _cmakePipe.
ConnectOp(s) == [s EXCEPT !.pipe = "connecting", !.wire = << >>, !.helloDue = FALSE]

\* launch with its onStarted callback (cmake.ts 1232-1298): the server is
\* spawned, its pid recorded, and the first connection attempt made.
LaunchOp(s) ==
    LET s1 == [s EXCEPT !.pid = s.nextPid,
                        !.alive = @ \cup {s.nextPid},
                        !.nextPid = @ + 1,
                        !.log = @ \cup {"spawn"}]
    IN  ConnectOp(s1)

\* The check of the version that "--version" printed (cmake.ts 1336).
VersionTooOld(major, minor) == major < MinMajor \/ minor < MinMinor

\* restart (cmake.ts 1368-1381).
RestartOp(s, deleteCache) ==
    LET s1 == IF IsRunning(s) THEN StopOp(s) ELSE s
        s2 == IF deleteCache THEN Log(s1, "deleteCache") ELSE s1
    IN  StartOp(s2)

\* A configure that deletes the cache file before its checks.
ConfigureOp_CleanFirst(s, cleanCache) ==
    LET s1 == IF cleanCache THEN Log(s, "deleteCache") ELSE s
    IN  IF ~IsRunning(s1) THEN Log(s1, "notRunning")
        ELSE IF ~KitSelected(s1) THEN Log(s1, "noKit")
        ELSE SendMessage(s1, Request("configure"))

\* configure (cmake.ts 1560-1596).
ConfigureOp(s, cleanCache) ==
    IF ~IsRunning(s) THEN Log(s, "notRunning")
    ELSE IF ~KitSelected(s) THEN Log(s, "noKit")
    ELSE SendMessage(IF cleanCache THEN Log(s, "deleteCache") ELSE s, Request("configure"))

\* The closures build, clean and install store or call (cmake.ts 1606-1654,
\* 1684-1705, 1724-1735).
LaunchTool(s, closure) ==
    IF closure = "launchBuild"
    THEN IF ~KitSelected(s) THEN Log(s, "noKit")
         ELSE [s EXCEPT !.launched = Append(@, "build")]
    ELSE IF closure = "launchClean" THEN [s EXCEPT !.launched = Append(@, "clean")]
    ELSE [s EXCEPT !.launched = Append(@, "install")]

\* build, clean, install (cmake.ts 1601-1663, 1678-1713, 1718-1743).
VerbOp(s, closure) ==
    IF ~IsRunning(s) THEN s
    ELSE IF ~s.configured
    THEN ConfigureOp([s EXCEPT !.postConfiguration = closure], FALSE)
    ELSE LaunchTool(s, closure)

\* A codemodel branch in which a parse that fails takes the flag back.
ReceiveCodemodel_FailureUnconfigures(s, m) ==
    LET r == ParseCodemodel(s.targets, m.codemodel, s.configuration)
        s1 == Log(Log([s EXCEPT !.targets = r.targets, !.payload = m.codemodel,
                                !.configured = (r.outcome = "ok")],
                      "codemodel"), r.outcome)
    IN  IF r.outcome = "threw" THEN s1
        ELSE IF s1.postConfiguration # "null"
        THEN [LaunchTool(Log(s1, "continuation"), s1.postConfiguration)
                EXCEPT !.postConfiguration = "null"]
        ELSE s1

\* The reply "codemodel" branch (cmake.ts 1147-1162).  A TypeError thrown by
\* parseCodemodel leaves receiveMessage after _targets was cleared.
ReceiveCodemodel(s, m) ==
    LET r == ParseCodemodel(s.targets, m.codemodel, s.configuration)
        s1 == Log(Log([s EXCEPT !.targets = r.targets, !.payload = m.codemodel],
                      "codemodel"), r.outcome)
    IN  IF r.outcome = "threw" THEN s1
        ELSE IF s1.postConfiguration # "null"
        THEN [LaunchTool(Log(s1, "continuation"), s1.postConfiguration)
                EXCEPT !.postConfiguration = "null"]
        ELSE s1

\* A switch that asks for the global settings only after a callback ran.
ReplyBranches_SettingsAfterCallbackOnly(s, m) ==
    CASE m.inReplyTo = "handshake" ->
            IF s.postHandshake # "null"
            THEN SendMessage(Log([s EXCEPT !.postHandshake = "null"], "postHandshake"),
                             Request("globalSettings"))
            ELSE s
      [] m.inReplyTo = "globalSettings" -> Log(s, "generators")
      [] m.inReplyTo = "configure" -> SendMessage(s, Request("compute"))
      [] m.inReplyTo = "compute" ->
            SendMessage([s EXCEPT !.configured = TRUE], Request("codemodel"))
      [] m.inReplyTo = "codemodel" -> ReceiveCodemodel(s, m)
      [] OTHER -> Log(s, "unhandledReply")

\* A switch in which the configure reply asks for the codemodel at once.
ReplyBranches_ConfigureSkipsCompute(s, m) ==
    CASE m.inReplyTo = "handshake" ->
            SendMessage([s EXCEPT !.postHandshake = "null",
                                  !.log = IF s.postHandshake # "null"
                                          THEN @ \cup {"postHandshake"} ELSE @],
                        Request("globalSettings"))
      [] m.inReplyTo = "globalSettings" -> Log(s, "generators")
      [] m.inReplyTo = "configure" -> SendMessage(s, Request("codemodel"))
      [] m.inReplyTo = "compute" ->
            SendMessage([s EXCEPT !.configured = TRUE], Request("codemodel"))
      [] m.inReplyTo = "codemodel" -> ReceiveCodemodel(s, m)
      [] OTHER -> Log(s, "unhandledReply")

\* The switch on inReplyTo (cmake.ts 1100-1170).
ReplyBranches(s, m) ==
    CASE m.inReplyTo = "handshake" ->
            SendMessage([s EXCEPT !.postHandshake = "null",
                                  !.log = IF s.postHandshake # "null"
                                          THEN @ \cup {"postHandshake"} ELSE @],
                        Request("globalSettings"))
      [] m.inReplyTo = "globalSettings" -> Log(s, "generators")
      [] m.inReplyTo = "configure" -> SendMessage(s, Request("compute"))
      [] m.inReplyTo = "compute" ->
            SendMessage([s EXCEPT !.configured = TRUE], Request("codemodel"))
      [] m.inReplyTo = "codemodel" -> ReceiveCodemodel(s, m)
      [] OTHER -> Log(s, "unhandledReply")

\* A reply branch that notes the foreign cookie and handles the reply anyway.
ReceiveReply_AnyCookie(s, m) ==
    ReplyBranches(IF m.cookie # BaseCookie THEN Log(s, "foreignCookie") ELSE s, m)

\* The reply branch (cmake.ts 1093-1171): the cookie check, then the switch.
ReceiveReply(s, m) ==
    IF m.cookie # BaseCookie THEN Log(s, "foreignCookie")
    ELSE ReplyBranches(s, m)

\* A signal branch in which dirty also forgets the targets.
ReceiveSignal_DirtyDropsTargets(s, m) ==
    IF m.name = "dirty"
    THEN Log([s EXCEPT !.configured = FALSE, !.targets = << >>], "dirty")
    ELSE s

\* The signal branch (cmake.ts 1038-1061).
ReceiveSignal(s, m) ==
    IF m.name = "dirty" THEN Log([s EXCEPT !.configured = FALSE], "dirty")
    ELSE s

\* A receiveMessage in which an error of the server drops the stored launch.
ReceiveMessage_ErrorDropsContinuation(s, m) ==
    CASE m.type = "undefined" -> Log(s, "invalidLayout")
      [] m.type = "message" -> Log(s, "serverMessage")
      [] m.type = "error" -> Log([s EXCEPT !.postConfiguration = "null"], "serverError")
      [] m.type = "signal" -> ReceiveSignal(s, m)
      [] m.type = "hello" ->
            IF 1 \in m.majors THEN SendMessage(s, HandshakeRequest)
            ELSE Log(s, "unsupportedProtocol")
      [] m.type = "reply" -> ReceiveReply(s, m)
      [] m.type = "progress" -> s
      [] OTHER -> Log(s, "unknownMessage")

\* receiveMessage (cmake.ts 1016-1182).
ReceiveMessage(s, m) ==
    CASE m.type = "undefined" -> Log(s, "invalidLayout")
      [] m.type = "message" -> Log(s, "serverMessage")
      [] m.type = "error" -> Log(s, "serverError")
      [] m.type = "signal" -> ReceiveSignal(s, m)
      [] m.type = "hello" ->
            IF 1 \in m.majors THEN SendMessage(s, HandshakeRequest)
            ELSE Log(s, "unsupportedProtocol")
      [] m.type = "reply" -> ReceiveReply(s, m)
      [] m.type = "progress" -> s
      [] OTHER -> Log(s, "unknownMessage")

(***************************************************************************)
(* The data events of the pipe: between the markers, the two halves of the *)
(* JSON text of a message, or text that is not JSON.                       *)
(***************************************************************************)
NotJson == Tok("X", 0, Plain("undefined"))
Frame(m) == << StartMarker, Tok("J", 1, m), Tok("J", 2, m), EndMarker >>
BadFrame == << StartMarker, NotJson, EndMarker >>

\* data.startsWith(start marker) and data.endsWith(end marker) (cmake.ts 1284-1285).
WellDelimited(data) ==
    /\ Len(data) >= 2
    /\ data[1] = StartMarker
    /\ data[Len(data)] = EndMarker

\* data.slice(24, -24): what is between the first and the last marker.
Payload(data) == SubSeq(data, 2, Len(data) - 1)

\* JSON.parse accepts exactly one complete JSON text.
IsJson(text) ==
    /\ Len(text) = 2
    /\ text[1].k = "J" /\ text[1].part = 1
    /\ text[2].k = "J" /\ text[2].part = 2
    /\ text[1].m = text[2].m

\* The "data" listener of the pipe (cmake.ts 1279-1292).  JSON.parse throws
\* a SyntaxError on anything else than one JSON text; nothing catches it.
OnData(s, data) ==
    IF ~WellDelimited(data) THEN Log(s, "invalidData")
    ELSE IF ~IsJson(Payload(data)) THEN Log(s, "uncaughtSyntaxError")
    ELSE ReceiveMessage([s EXCEPT !.dispatched = Append(@, Payload(data)[1].m)],
                        Payload(data)[1].m)

(***************************************************************************)
(* The inputs of the model.                                                *)
(***************************************************************************)
Kits == {"undefined", "msvc"}
Variants == {"undefined", "Debug", "Release"}

T(name, type) == [name |-> name, type |-> type]
P(hasTargets, ts) == [hasTargets |-> hasTargets, targets |-> ts]
C(name, hasProjects, ps) == [name |-> name, hasProjects |-> hasProjects, projects |-> ps]
CM(cs) == [hasConfigurations |-> TRUE, configurations |-> cs]

\* One configuration Debug with app and gen; one configuration Release.
DebugOnly == CM(<< C("Debug", TRUE, << P(TRUE, << T("app", "EXECUTABLE"), T("gen", "UTILITY") >>) >>) >>)
ReleaseOnly == CM(<< C("Release", TRUE, << P(TRUE, << T("app", "EXECUTABLE") >>) >>) >>)

\* The codemodel payloads the server answers with.
CodeModels ==
    { NoCodemodel,
      CM(<< >>),
      DebugOnly,
      ReleaseOnly,
      CM(<< C("Debug", TRUE, << P(TRUE, << T("lib", "STATIC_LIBRARY"), T("obj", "OBJECT_LIBRARY"),
                                          T("app", "EXECUTABLE") >>),
                                 P(FALSE, << >>),
                                 P(TRUE, << T("dll", "SHARED_LIBRARY") >>) >>),
            C("Release", TRUE, << P(TRUE, << T("app", "EXECUTABLE") >>) >>) >>),
      CM(<< C("DEBUG", TRUE, << P(TRUE, << T("app", "UTILITY"), T("tool", "EXECUTABLE") >>) >>),
            C("Debug", TRUE, << P(TRUE, << T("undefined", "EXECUTABLE"), T("app", "EXECUTABLE") >>) >>) >>),
      CM(<< C("Debug", TRUE, << P(TRUE, << T("obj", "OBJECT_LIBRARY"), T("undefined", "UTILITY") >>) >>),
            C("Release", FALSE, << >>) >>) }

\* The payloads used where the session as a whole is explored.
SessionCodeModels ==
    { NoCodemodel, DebugOnly }

\* What "cmake --version" printed: no version that can be read, or major.minor.
VersionOutputs ==
    { [parsed |-> FALSE, major |-> 0, minor |-> 0],
      [parsed |-> TRUE, major |-> 2, minor |-> 14],
      [parsed |-> TRUE, major |-> 3, minor |-> 11],
      [parsed |-> TRUE, major |-> 3, minor |-> 12],
      [parsed |-> TRUE, major |-> 4, minor |-> 0] }

\* The settings of package.json that _configChanges watches, in the order of
\* its keys (cmake.ts 785-816).
ConfigKeys == << "executable", "generator", "configureArguments", "buildDirectory", "installDirectory" >>

\* Messages the server sends without being asked, and replies of another session.
Pushed ==
    { Plain("undefined"), Plain("message"), Plain("progress"), Plain("unknown"),
      Signal("dirty"), Signal("fileChange"), Signal("other"),
      Reply("other", BaseCookie) }
    \cup { Reply(r, ForeignCookie) : r \in {"handshake", "globalSettings", "configure", "compute", "other"} }
    \cup { CodemodelReply(ForeignCookie, cm) : cm \in SessionCodeModels }

\* The answers of the server to a request.
Answers(request, codemodels) ==
    IF request = "codemodel" THEN { CodemodelReply(BaseCookie, cm) : cm \in codemodels }
    ELSE { Reply(request, BaseCookie) }

(***************************************************************************)
(* State after loading the module (cmake.ts 929-969) with the persisted    *)
(* settings, and the state a handler leaves.                               *)
(***************************************************************************)
Loaded(kit, variant) ==
    [ started |-> FALSE, pid |-> NoPid, pipe |-> "null",
      configured |-> FALSE, postConfiguration |-> "null",
      postHandshake |-> "null", targets |-> << >>,
      kit |-> kit, configuration |-> variant,
      probes |-> 0, prompts |-> 0, timers |-> 0,
      alive |-> {}, signalled |-> {}, nextPid |-> 1,
      wire |-> << >>, helloDue |-> FALSE,
      sent |-> << >>, launched |-> << >>, log |-> {"initialize"}, ret |-> << >>,
      payload |-> NoCodemodel, dispatched |-> << >>, probed |-> NoResult,
      written |-> << >>, changed |-> {} ]

\* What the last handler did, as far as the properties below look at it.
Notable == {"exit", "exitNonZero", "unexpected", "stopped", "build", "getTargets",
            "configure", "clean", "install", "notRunning", "noKit", "deleteCache",
            "codemodel", "threw",
            "noConfiguration", "noTarget", "noConfigurationsField", "ok",
            "dirty", "foreignCookie", "uncaughtSyntaxError", "invalidData",
            "versionResult", "couldntStart", "dataEvent",
            "settingsChanged", "nuke", "continuation",
            "unsupportedProtocol", "postHandshake"}

EvOf(s) == [sent |-> s.sent, launched |-> s.launched, log |-> s.log \cap Notable,
            ret |-> s.ret, payload |-> s.payload, probed |-> s.probed,
            written |-> s.written, changed |-> s.changed]

\* The requests sent so far, by type: a history of sendMessage (cmake.ts
\* 1190-1202) kept in the runs of the chain only.
NoCount == [counting |-> FALSE, configure |-> 0, compute |-> 0, codemodel |-> 0]

Occurrences(sent, type) == Cardinality({ i \in 1..Len(sent) : sent[i] = type })

Counted(count, sent) ==
    IF ~count.counting THEN count
    ELSE [count EXCEPT !.configure = @ + Occurrences(sent, "configure"),
                       !.compute = @ + Occurrences(sent, "compute"),
                       !.codemodel = @ + Occurrences(sent, "codemodel")]

InitAs(s) ==
    /\ cmakeStarted = s.started
    /\ cmakePid = s.pid
    /\ cmakePipe = s.pipe
    /\ configured = s.configured
    /\ postConfiguration = s.postConfiguration
    /\ postHandshake = s.postHandshake
    /\ targets = s.targets
    /\ kitSetting = s.kit
    /\ configuration = s.configuration
    /\ probes = s.probes
    /\ prompts = s.prompts
    /\ timers = s.timers
    /\ alive = s.alive
    /\ signalled = s.signalled
    /\ nextPid = s.nextPid
    /\ wire = s.wire
    /\ helloDue = s.helloDue
    /\ ev = EvOf(s)

Commit(s) ==
    /\ cmakeStarted' = s.started
    /\ cmakePid' = s.pid
    /\ cmakePipe' = s.pipe
    /\ configured' = s.configured
    /\ postConfiguration' = s.postConfiguration
    /\ postHandshake' = s.postHandshake
    /\ targets' = s.targets
    /\ kitSetting' = s.kit
    /\ configuration' = s.configuration
    /\ probes' = s.probes
    /\ prompts' = s.prompts
    /\ timers' = s.timers
    /\ alive' = s.alive
    /\ signalled' = s.signalled
    /\ nextPid' = s.nextPid
    /\ wire' = s.wire
    /\ helloDue' = s.helloDue
    /\ ev' = EvOf(s)
    /\ sentCount' = Counted(sentCount, s.sent)

NoStream == [all |-> << >>, pos |-> 0]

\* No helper of utils.ts is run on its own.
NoRun == [helper |-> "none"]

\* initialize (cmake.ts 890-924) ends with start().
Init ==
    /\ \E kit \in Kits, variant \in Variants : InitAs(StartOp(Loaded(kit, variant)))
    /\ disposed = FALSE
    /\ stream = NoStream
    /\ utilsRun = NoRun
    /\ fed = << >>
    /\ sentCount = NoCount

Frozen == UNCHANGED << disposed, stream, fed, utilsRun >>

(***************************************************************************)
(* The start of the server: the asynchronous steps of start().             *)
(***************************************************************************)
\* The promise of utils.execute("--version") is fulfilled (cmake.ts 1229-1346).
\* utils.execute never rejects its promise (utils.ts 73-134), so the second
\* callback of then (cmake.ts 1348-1357) has no step.
ProbeDoneUpTo(maxProcs) ==
    /\ probes > 0
    /\ \E out \in VersionOutputs :
         LET s == [Cur("probeDone") EXCEPT !.probes = @ - 1]
         IN  IF ~out.parsed
             THEN Commit([s EXCEPT !.prompts = @ + 1])
             ELSE IF VersionTooOld(out.major, out.minor)
             THEN Commit(Log(s, "insufficientVersion"))
             ELSE nextPid <= maxProcs /\ Commit(LaunchOp(s))
    /\ Frozen

ProbeDone == ProbeDoneUpTo(MaxProcs)

\* The user answers the warning (cmake.ts 1327-1331).
PromptAnswerUpTo(maxProcs) ==
    /\ prompts > 0
    /\ \E answer \in {"yes", "no"} :
         LET s == [Cur("promptAnswer") EXCEPT !.prompts = @ - 1]
         IN  IF answer = "yes"
             THEN nextPid <= maxProcs /\ Commit(LaunchOp(s))
             ELSE Commit(s)
    /\ Frozen

PromptAnswer == PromptAnswerUpTo(MaxProcs)

\* The socket connects: the server has created its pipe.
PipeConnected ==
    /\ cmakePipe = "connecting"
    /\ alive # {}
    /\ Commit([Cur("pipeConnected") EXCEPT !.pipe = "open", !.helloDue = TRUE])
    /\ Frozen

\* The "error" listener of the socket (cmake.ts 1271-1276).
PipeError ==
    /\ cmakePipe = "connecting"
    /\ LET s == [Cur("pipeError") EXCEPT !.pipe = "failed", !.wire = << >>]
       IN  Commit(IF s.pid # NoPid THEN [s EXCEPT !.timers = @ + 1] ELSE s)
    /\ Frozen

\* A timer set by the "error" listener fires: connect() runs again.
TimerFire ==
    /\ timers > 0
    /\ Commit(ConnectOp([Cur("timerFire") EXCEPT !.timers = @ - 1]))
    /\ Frozen

\* The promise of the server's utils.execute is fulfilled: the subprocess
\* exited (cmake.ts 1300-1314).
ExitOp(s, code) ==
    LET s0 == IF code # 0 THEN Log(s, "exitNonZero") ELSE s
        s1 == IF code = 0 \/ s0.pid = NoPid THEN Log(s0, "stopped") ELSE Log(s0, "unexpected")
    IN  StopOp([s1 EXCEPT !.pid = NoPid])

ServerExit ==
    /\ \E p \in alive, code \in {0, 1} :
         Commit(ExitOp([Cur("exit") EXCEPT !.alive = @ \ {p}], code))
    /\ Frozen

(***************************************************************************)
(* Data events of the pipe.                                                *)
(***************************************************************************)
ServerHelloUpTo(maxWire) ==
    /\ cmakePipe = "open"
    /\ helloDue
    /\ Len(wire) < maxWire
    /\ \E majors \in {{1}, {2}} :
         Commit(OnData([Cur("hello") EXCEPT !.helloDue = FALSE], Frame(Hello(majors))))
    /\ Frozen

ServerHello == ServerHelloUpTo(MaxWire)

ServerReplyWith(codemodels) ==
    /\ cmakePipe = "open"
    /\ wire # << >>
    /\ \E m \in Answers(Head(wire), codemodels) :
         Commit(OnData([Cur("reply") EXCEPT !.wire = Tail(@)], Frame(m)))
    /\ Frozen

ServerReply == ServerReplyWith(SessionCodeModels)

ServerError ==
    /\ cmakePipe = "open"
    /\ wire # << >>
    /\ Commit(OnData([Cur("error") EXCEPT !.wire = Tail(@)], Frame(ErrorMsg(Head(wire)))))
    /\ Frozen

ServerPush ==
    /\ cmakePipe = "open"
    /\ \E m \in Pushed : Commit(OnData(Cur("push"), Frame(m)))
    /\ Frozen

ServerGarbage ==
    /\ cmakePipe = "open"
    /\ \E data \in {BadFrame, << StartMarker >>} : Commit(OnData(Cur("garbage"), data))
    /\ Frozen

(***************************************************************************)
(* The commands of the user and the settings listeners.                    *)
(***************************************************************************)
ConfigureUpTo(maxWire) ==
    /\ ~disposed
    /\ Len(wire) < maxWire
    /\ \E cleanCache \in BOOLEAN : Commit(ConfigureOp(Cur("configure"), cleanCache))
    /\ Frozen

Configure == ConfigureUpTo(MaxWire)

BuildUpTo(maxWire) ==
    /\ ~disposed
    /\ Len(wire) < maxWire
    /\ Commit(VerbOp(Cur("build"), "launchBuild"))
    /\ Frozen

Build == BuildUpTo(MaxWire)

CleanUpTo(maxWire) ==
    /\ ~disposed
    /\ Len(wire) < maxWire
    /\ Commit(VerbOp(Cur("clean"), "launchClean"))
    /\ Frozen

Clean == CleanUpTo(MaxWire)

InstallUpTo(maxWire) ==
    /\ ~disposed
    /\ Len(wire) < maxWire
    /\ Commit(VerbOp(Cur("install"), "launchInstall"))
    /\ Frozen

Install == InstallUpTo(MaxWire)

GetTargets ==
    /\ ~disposed
    /\ Commit([Cur("getTargets") EXCEPT !.ret = GetTargetsOf(targets)])
    /\ Frozen

\* The kit command: utils.settings.set("kit", value) (utils.ts 369-377) fires
\* the listener restart(value) when the value changes (cmake.ts 920).
SelectKitUpTo(maxPending) ==
    /\ ~disposed
    /\ probes + prompts < maxPending
    /\ \E value \in Kits :
         LET s == Cur("selectKit")
         IN  IF value = s.kit THEN Commit(s)
             ELSE Commit(RestartOp([s EXCEPT !.kit = value], FALSE))
    /\ Frozen

SelectKit == SelectKitUpTo(MaxPending)

\* The configuration command (utils.ts 369-377): no listener of cmake.ts.
SelectConfiguration ==
    /\ ~disposed
    /\ \E value \in Variants : Commit([Cur("selectConfiguration") EXCEPT !.configuration = value])
    /\ Frozen

\* The listener of settings changes (cmake.ts 903-917) runs the entry of
\* _configChanges of the first key the event affects (cmake.ts 785-816).
FirstAffected(affected) ==
    ConfigKeys[CHOOSE i \in 1..Len(ConfigKeys) :
                  /\ ConfigKeys[i] \in affected
                  /\ \A j \in 1..(i - 1) : ConfigKeys[j] \notin affected]

ConfigChangeOp(s, affected) ==
    LET key == FirstAffected(affected)
    IN  CASE key \in {"executable", "generator"} -> RestartOp(s, TRUE)
          [] key \in {"configureArguments", "installDirectory"} -> [s EXCEPT !.configured = FALSE]
          [] OTHER -> RestartOp(Log(s, "nuke"), FALSE)

ConfigChangeUpTo(maxPending) ==
    /\ ~disposed
    /\ probes + prompts < maxPending
    /\ \E affected \in (SUBSET SeqToSet(ConfigKeys)) \ {{}} :
         /\ Cardinality(affected) <= 2
         /\ Commit(ConfigChangeOp(Cur("configChange"), affected))
    /\ Frozen

ConfigChange == ConfigChangeUpTo(MaxPending)

\* Cleanup.dispose is stop (cmake.ts 998-1007).
Dispose ==
    /\ ~disposed
    /\ Commit(StopOp(Cur("dispose")))
    /\ disposed' = TRUE
    /\ UNCHANGED << stream, fed, utilsRun >>

Next ==
    \/ ProbeDone
    \/ PromptAnswer
    \/ PipeConnected
    \/ PipeError
    \/ TimerFire
    \/ ServerExit
    \/ ServerHello
    \/ ServerReply
    \/ ServerError
    \/ ServerPush
    \/ ServerGarbage
    \/ Configure
    \/ Build
    \/ Clean
    \/ Install
    \/ GetTargets
    \/ SelectKit
    \/ SelectConfiguration
    \/ ConfigChange
    \/ Dispose

Spec == Init /\ [][Next]_vars

(***************************************************************************)
(* The lifecycle alone: the steps that start, stop and restart the server, *)
(* with room for three subprocesses.  Every behaviour of it is a behaviour *)
(* of the session in which the server sends nothing.                       *)
(***************************************************************************)
LifeProbeDone == ProbeDoneUpTo(LifeMaxProcs)
LifePromptAnswer == PromptAnswerUpTo(LifeMaxProcs)
LifeSelectKit == SelectKitUpTo(LifeMaxPending)
LifeConfigChange == ConfigChangeUpTo(LifeMaxPending)

NextLifecycle ==
    \/ LifeProbeDone
    \/ LifePromptAnswer
    \/ PipeConnected
    \/ ServerExit
    \/ LifeSelectKit
    \/ LifeConfigChange
    \/ Dispose

SpecLifecycle == Init /\ [][NextLifecycle]_vars

(***************************************************************************)
(* The verbs of the user against the lifecycle and the configure chain,    *)
(* with room for two subprocesses and two requests waiting for a reply.    *)
(***************************************************************************)
VerbProbeDone == ProbeDoneUpTo(VerbMaxProcs)
VerbSelectKit == SelectKitUpTo(VerbMaxPending)
VerbConfigChange == ConfigChangeUpTo(VerbMaxPending)
VerbConfigure == ConfigureUpTo(VerbMaxWire)
VerbBuild == BuildUpTo(VerbMaxWire)
VerbClean == CleanUpTo(VerbMaxWire)
VerbInstall == InstallUpTo(VerbMaxWire)

NextVerbs ==
    \/ VerbProbeDone
    \/ PipeConnected
    \/ ServerExit
    \/ ServerReply
    \/ VerbConfigure
    \/ VerbBuild
    \/ VerbClean
    \/ VerbInstall
    \/ VerbSelectKit
    \/ VerbConfigChange
    \/ Dispose

SpecVerbs == Init /\ [][NextVerbs]_vars

(***************************************************************************)
(* The lifecycle with the settings events kept: the keys an event affects  *)
(* are recorded with what its listener did.                                *)
(***************************************************************************)
\* A change of settings.json: one event for all the keys the save changed.
SettingsChanged ==
    /\ ~disposed
    /\ probes + prompts < LifeMaxPending
    /\ \E affected \in (SUBSET SeqToSet(ConfigKeys)) \ {{}} :
         /\ Cardinality(affected) <= 2
         /\ Commit(ConfigChangeOp([Cur("settingsChanged") EXCEPT !.changed = affected],
                                  affected))
    /\ Frozen

NextChanges ==
    \/ LifeProbeDone
    \/ LifePromptAnswer
    \/ PipeConnected
    \/ ServerExit
    \/ LifeSelectKit
    \/ SettingsChanged

SpecChanges == Init /\ [][NextChanges]_vars

(***************************************************************************)
(* The requests of the engine over two servers: hello and the handshake,   *)
(* the configure chain, and the restart by a change of the kit.            *)
(***************************************************************************)
SendHello == ServerHelloUpTo(VerbMaxWire)

NextSend ==
    \/ VerbProbeDone
    \/ PipeConnected
    \/ ServerExit
    \/ SendHello
    \/ ServerReply
    \/ VerbConfigure
    \/ VerbSelectKit

SpecSend == Init /\ [][NextSend]_vars

(***************************************************************************)
(* The start attempts with the text that "--version" prints: the execution *)
(* of the configured executable, the match of the version, the gate.       *)
(***************************************************************************)
Word(w) == [k |-> "word", v |-> 0, w |-> w]
Num(n) == [k |-> "num", v |-> n, w |-> ""]
Dot == [k |-> "dot", v |-> 0, w |-> ""]

VersionText(major, minor, patch) ==
    << Word("cmake version "), Num(major), Dot, Num(minor), Dot, Num(patch) >>

\* What an executable that runs may print on "--version".
VersionTexts ==
    { << >>,
      << Word("usage") >>,
      << Word("cmake version "), Num(3), Dot, Num(12) >>,
      << Word("note") >> \o VersionText(3, 13, 1) }
    \cup { VersionText(major, minor, patch) :
             major \in {2, 3, 4}, minor \in {0, 11, 12, 13}, patch \in {0, 1} }

\* getExecutable() (cmake.ts 1393-1395) names a program that can be run, or
\* one that cannot be located.
Programs == {"cmake", "missing"}

\* utils.execute (utils.ts 73-134): the promise is built with resolve alone.
\* A program that cannot be spawned makes the child emit "error" and then
\* "close", or makes spawn throw; both ways the promise is fulfilled, with
\* the stdout of Result left empty.
Execute(program) ==
    IF program = "missing" THEN { Result("fulfilled", << >>, "ENOENT") }
    ELSE { Result("fulfilled", text, "") : text \in VersionTexts }

\* result.stdout.match(/cmake version (\d+)\.(\d+)\.(\d+)/) (cmake.ts 1319).
MatchAt(stdout, i) ==
    /\ i + 5 <= Len(stdout)
    /\ stdout[i] = Word("cmake version ")
    /\ stdout[i + 1].k = "num"
    /\ stdout[i + 2] = Dot
    /\ stdout[i + 3].k = "num"
    /\ stdout[i + 4] = Dot
    /\ stdout[i + 5].k = "num"

MatchVersion(stdout) ==
    IF \E i \in 1..Len(stdout) : MatchAt(stdout, i)
    THEN LET i == CHOOSE i \in 1..Len(stdout) :
                     MatchAt(stdout, i) /\ \A j \in 1..(i - 1) : ~MatchAt(stdout, j)
         IN  [matched |-> TRUE, major |-> stdout[i + 1].v, minor |-> stdout[i + 3].v,
              patch |-> stdout[i + 5].v]
    ELSE [matched |-> FALSE, major |-> 0, minor |-> 0, patch |-> 0]

\* The first callback of then (cmake.ts 1229-1346).
OnVersionResult(s, result) ==
    LET version == MatchVersion(result.stdout)
    IN  IF ~version.matched THEN [s EXCEPT !.prompts = @ + 1]
        ELSE IF VersionTooOld(version.major, version.minor) THEN Log(s, "insufficientVersion")
        ELSE LaunchOp(s)

\* The second callback of then (cmake.ts 1348-1357).
OnVersionFailure(s) == StopOp(Log(s, "couldntStart"))

\* The promise of utils.execute("--version") is settled.
StartVersionResult ==
    /\ probes > 0
    /\ \E program \in Programs :
         \E result \in Execute(program) :
            LET s == [Cur("versionResult") EXCEPT !.probes = @ - 1, !.probed = result]
                after == IF result.settled = "fulfilled" THEN OnVersionResult(s, result)
                         ELSE OnVersionFailure(s)
            IN  /\ after.nextPid <= StartMaxProcs + 1
                /\ Commit(after)
    /\ Frozen

StartPromptAnswer == PromptAnswerUpTo(StartMaxProcs)
StartSelectKit == SelectKitUpTo(StartMaxPending)
StartConfigChange == ConfigChangeUpTo(StartMaxPending)

NextStart ==
    \/ StartVersionResult
    \/ StartPromptAnswer
    \/ PipeConnected
    \/ ServerExit
    \/ StartSelectKit
    \/ StartConfigChange
    \/ Dispose

SpecStart == Init /\ [][NextStart]_vars

(***************************************************************************)
(* A session that is connected and has finished its handshake: the state   *)
(* reached by the version check, the launch, the connection, hello, and    *)
(* the replies to handshake and globalSettings.                            *)
(***************************************************************************)
Connected(variant) ==
    [ Loaded("msvc", variant) EXCEPT
        !.started = TRUE, !.pid = 1, !.pipe = "open",
        !.alive = {1}, !.nextPid = 2, !.log = {} ]

(***************************************************************************)
(* The configure chain of one session, with the full set of codemodel      *)
(* payloads.                                                               *)
(***************************************************************************)
InitParse ==
    /\ \E variant \in Variants : InitAs(Connected(variant))
    /\ disposed = FALSE
    /\ stream = NoStream
    /\ utilsRun = NoRun
    /\ fed = << >>
    /\ sentCount = NoCount

ParseReply == ServerReplyWith(CodeModels)

NextParse ==
    \/ ParseReply
    \/ ServerPush
    \/ Configure
    \/ Build
    \/ GetTargets
    \/ SelectConfiguration

SpecParse == InitParse /\ [][NextParse]_vars

(***************************************************************************)
(* The messages of a connected server one by one: every data event holds   *)
(* one frame, and the message given to receiveMessage is kept in fed.      *)
(***************************************************************************)
InitReceive ==
    /\ \E variant \in Variants : InitAs([Connected(variant) EXCEPT !.helloDue = TRUE])
    /\ disposed = FALSE
    /\ stream = NoStream
    /\ utilsRun = NoRun
    /\ fed = << >>
    /\ sentCount = NoCount

\* What the server may send in a state: its hello once, an answer or an
\* error to the oldest request, and the messages it sends without being asked.
Incoming(s) ==
    { [m |-> Hello(majors), answers |-> FALSE] : majors \in IF s.helloDue THEN {{1}, {2}} ELSE {} }
    \cup { [m |-> m, answers |-> TRUE] :
             m \in IF s.wire = << >> THEN {}
                   ELSE Answers(Head(s.wire), CodeModels) \cup {ErrorMsg(Head(s.wire))} }
    \cup { [m |-> m, answers |-> FALSE] : m \in Pushed }

DataEventUpTo(maxWire) ==
    /\ cmakePipe = "open"
    /\ \E in \in Incoming(Cur("dataEvent")) :
         LET before == [Cur("dataEvent") EXCEPT
                          !.wire = IF in.answers THEN Tail(@) ELSE @,
                          !.helloDue = IF in.m.type = "hello" THEN FALSE ELSE @]
             s == OnData(before, Frame(in.m))
         IN  /\ Len(s.wire) <= maxWire
             /\ Commit(s)
             /\ fed' = s.dispatched
    /\ UNCHANGED << disposed, stream, utilsRun >>

DataEvent == DataEventUpTo(MaxWire)

NextReceive ==
    \/ DataEvent
    \/ Configure
    \/ Build
    \/ SelectConfiguration

SpecReceive == InitReceive /\ [][NextReceive]_vars

(***************************************************************************)
(* The byte stream of the pipe: the server writes frames, the socket       *)
(* delivers them in "data" events cut at any place.                        *)
(***************************************************************************)
CodecMessages == { Signal("dirty"), Plain("message"), Plain("progress") }

CodecFrames == { Frame(m) : m \in CodecMessages } \cup { BadFrame }

RECURSIVE StreamsOf(_)
StreamsOf(n) ==
    IF n = 0 THEN { << >> }
    ELSE LET shorter == StreamsOf(n - 1)
         IN  shorter \cup { st \o f : st \in shorter, f \in CodecFrames }

InitCodec ==
    /\ InitAs([Connected("Debug") EXCEPT !.configured = TRUE])
    /\ disposed = FALSE
    /\ \E st \in StreamsOf(MaxFrames) \ { << >> } : stream = [all |-> st, pos |-> 0]
    /\ fed = << >>
    /\ sentCount = NoCount
    /\ utilsRun = NoRun

Deliver ==
    /\ stream.pos < Len(stream.all)
    /\ \E n \in 1..(Len(stream.all) - stream.pos) :
         LET s == OnData(Cur("data"), SubSeq(stream.all, stream.pos + 1, stream.pos + n))
         IN  /\ Commit(s)
             /\ stream' = [stream EXCEPT !.pos = @ + n]
             /\ fed' = fed \o s.dispatched
    /\ UNCHANGED << disposed, utilsRun >>

NextCodec == Deliver

SpecCodec == InitCodec /\ [][NextCodec]_vars

\* What a decoder that follows the framing yields for a sequence of whole
\* frames: the message of every frame whose text is JSON, in order.
RECURSIVE IsFrames(_)
IsFrames(data) ==
    \/ data = << >>
    \/ /\ Len(data) >= 4
       /\ SubSeq(data, 1, 4) = Frame(data[2].m)
       /\ IsFrames(SubSeq(data, 5, Len(data)))
    \/ /\ Len(data) >= 3
       /\ SubSeq(data, 1, 3) = BadFrame
       /\ IsFrames(SubSeq(data, 4, Len(data)))

RECURSIVE Decode(_)
Decode(data) ==
    IF data = << >> THEN << >>
    ELSE IF data[2].k = "J" THEN << data[2].m >> \o Decode(SubSeq(data, 5, Len(data)))
    ELSE Decode(SubSeq(data, 4, Len(data)))

(***************************************************************************)
(* utils.setProperty (utils.ts 171-182) on JSON objects.  A value is a     *)
(* string or an object; an object maps tokens to values.  A url is a       *)
(* sequence of characters, a token the characters between two dots.        *)
(***************************************************************************)
Str(v) == [kind |-> "string", v |-> v, props |-> << >>]
Obj(props) == [kind |-> "object", v |-> "", props |-> props]
Missing == [kind |-> "undefined", v |-> "", props |-> << >>]
EmptyObject == Obj(<< >>)

\* node[token] = child.
Put(node, token, child) ==
    Obj([ key \in DOMAIN node.props \cup {token} |->
            IF key = token THEN child ELSE node.props[key] ])

\* url.split(".") (utils.ts 172).
RECURSIVE Split(_)
Split(url) ==
    IF \A i \in 1..Len(url) : url[i] # "." THEN << url >>
    ELSE LET i == CHOOSE i \in 1..Len(url) :
                     url[i] = "." /\ \A j \in 1..(i - 1) : url[j] # "."
         IN  << SubSeq(url, 1, i - 1) >> \o Split(SubSeq(url, i + 1, Len(url)))

\* A setProperty that makes a new object for every intermediate token.
RECURSIVE SetProperty_FreshIntermediates(_, _, _)
SetProperty_FreshIntermediates(root, tokens, value) ==
    IF root.kind # "object" THEN [root |-> root, threw |-> TRUE]
    ELSE IF Len(tokens) = 1
    THEN [root |-> Put(root, Head(tokens), Str(value)), threw |-> FALSE]
    ELSE LET below == SetProperty_FreshIntermediates(EmptyObject, Tail(tokens), value)
         IN  [root |-> Put(root, Head(tokens), below.root), threw |-> FALSE]

\* The loop of setProperty over the tokens (utils.ts 172-181), from the
\* object the variable root refers to.  The module is in strict mode: an
\* assignment to a property of a string throws a TypeError, and it does so
\* before anything was created.
RECURSIVE SetProperty(_, _, _)
SetProperty(root, tokens, value) ==
    IF root.kind # "object" THEN [root |-> root, threw |-> TRUE]
    ELSE IF Len(tokens) = 1
    THEN [root |-> Put(root, Head(tokens), Str(value)), threw |-> FALSE]
    ELSE LET token == Head(tokens)
             next == IF token \in DOMAIN root.props THEN root.props[token] ELSE EmptyObject
             below == SetProperty(next, Tail(tokens), value)
         IN  IF below.threw THEN [root |-> root, threw |-> TRUE]
             ELSE [root |-> Put(root, token, below.root), threw |-> FALSE]

\* root[t1][t2]...: the value found by following the tokens, if any.
RECURSIVE GetProperty(_, _)
GetProperty(root, tokens) ==
    IF tokens = << >> THEN root
    ELSE IF root.kind = "object" /\ Head(tokens) \in DOMAIN root.props
    THEN GetProperty(root.props[Head(tokens)], Tail(tokens))
    ELSE Missing

UrlChars == {"a", "."}

RECURSIVE UrlsUpTo(_)
UrlsUpTo(n) ==
    IF n = 0 THEN { << >> }
    ELSE UrlsUpTo(n - 1) \cup { Append(url, c) : url \in UrlsUpTo(n - 1), c \in UrlChars }

Urls == UrlsUpTo(MaxUrlLen)

PropertyValues == {"x", "y"}

\* The objects a run starts from: {} and {"a": {"": "w"}}.
Roots == { EmptyObject, Put(EmptyObject, << "a" >>, Put(EmptyObject, << >>, Str("w"))) }

InitProps ==
    /\ InitAs(Loaded("undefined", "undefined"))
    /\ disposed = FALSE
    /\ stream = NoStream
    /\ fed = << >>
    /\ sentCount = NoCount
    /\ \E root \in Roots :
         utilsRun = [helper |-> "setProperty", root |-> root, before |-> root,
                     url |-> << >>, value |-> "", threw |-> FALSE, calls |-> 0]

SetPropertyCall ==
    /\ utilsRun.calls < MaxCalls
    /\ \E url \in Urls, value \in PropertyValues :
         LET r == SetProperty(utilsRun.root, Split(url), value)
         IN  utilsRun' = [helper |-> "setProperty", root |-> r.root, before |-> utilsRun.root,
                          url |-> url, value |-> value, threw |-> r.threw,
                          calls |-> utilsRun.calls + 1]
    /\ UNCHANGED << cmakeStarted, cmakePid, cmakePipe, configured, postConfiguration,
                    postHandshake, targets, kitSetting, configuration, probes, prompts,
                    timers, alive, signalled, nextPid, wire, helloDue, disposed, ev,
                    stream, fed, sentCount >>

NextProps == SetPropertyCall

SpecProps == InitProps /\ [][NextProps]_vars

(***************************************************************************)
(* utils.call (utils.ts 139-147).  A JavaScript value is a string (its     *)
(* pieces of text), a number (its digits), an array, a function, or        *)
(* undefined.                                                              *)
(***************************************************************************)
JsString(pieces) == [kind |-> "string", items |-> pieces]
JsNumber(digits) == [kind |-> "number", items |-> << digits >>]
JsArray(items) == [kind |-> "array", items |-> items]
JsFunction(name) == [kind |-> "function", items |-> << name >>]
JsUndefined == [kind |-> "undefined", items |-> << >>]

\* String(value) for a value that is not an array.
ScalarText(value) ==
    IF value.kind = "undefined" THEN << "undefined" >> ELSE value.items

\* Array.prototype.join(","): an undefined element gives the empty string.
RECURSIVE JoinText(_)
JoinText(items) ==
    IF items = << >> THEN << >>
    ELSE LET first == IF Head(items).kind = "undefined" THEN << >> ELSE ScalarText(Head(items))
         IN  IF Len(items) = 1 THEN first
             ELSE first \o << "," >> \o JoinText(Tail(items))

\* String(value), as a template literal applies it.
ToText(value) == IF value.kind = "array" THEN JoinText(value.items) ELSE ScalarText(value)

\* The parameter a function reads at a position of its parameter list.
Parameter(params, i) == IF i <= Len(params) THEN params[i] ELSE JsUndefined

\* The functions the objects of the model hold: the callback of the test,
\* (value) => `hello ${value}` (utils.test.ts 22), and onStarted,
\* (pid) => { _cmakePid = pid; ... } (cmake.ts 1251-1298).
ApplyFunction(func, params) ==
    IF func = JsFunction("test")
    THEN [ret |-> JsString(<< "hello " >> \o ToText(Parameter(params, 1))),
          received |-> Parameter(params, 1)]
    ELSE [ret |-> JsUndefined, received |-> Parameter(params, 1)]

\* Object.prototype: what every object inherits.
Inherited(key) == IF key = "toString" THEN JsFunction("toString") ELSE JsUndefined

\* object[key]: the own property, or the inherited one.
Lookup(object, key) == IF key \in DOMAIN object THEN object[key] ELSE Inherited(key)

\* call (utils.ts 139-147): the rest parameter args is an array, and the
\* function is called with that array as its one parameter.
Call(object, key, args) ==
    IF key \in DOMAIN object /\ Lookup(object, key).kind = "function"
    THEN LET params == << JsArray(args) >>
             applied == ApplyFunction(Lookup(object, key), params)
         IN  [called |-> TRUE, params |-> params, received |-> applied.received,
              ret |-> applied.ret]
    ELSE [called |-> FALSE, params |-> << >>, received |-> JsUndefined, ret |-> JsUndefined]

CallKeys == {"test", "onStarted", "foo", "toString"}

\* The objects call is given: the one of the test, the options of the
\* execution of the server, options without callbacks, and an object whose
\* "test" is not a function.
CallObjects ==
    { [key \in {"test"} |-> JsFunction("test")],
      [key \in {"onStarted", "logCommand"} |->
          IF key = "onStarted" THEN JsFunction("onStarted") ELSE JsString(<< "true" >>)],
      [key \in {"logCommand"} |-> JsString(<< "true" >>)],
      [key \in {"test"} |-> JsString(<< "world" >>)] }

CallValues == { JsString(<< "world" >>), JsNumber("1234"), JsUndefined }

RECURSIVE ArgLists(_)
ArgLists(n) ==
    IF n = 0 THEN { << >> }
    ELSE ArgLists(n - 1) \cup { Append(args, v) : args \in ArgLists(n - 1), v \in CallValues }

InitCall ==
    /\ InitAs(Loaded("undefined", "undefined"))
    /\ disposed = FALSE
    /\ stream = NoStream
    /\ fed = << >>
    /\ sentCount = NoCount
    /\ \E object \in CallObjects :
         utilsRun = [helper |-> "call", object |-> object, key |-> "", args |-> << >>,
                     result |-> Call(object, "", << >>), calls |-> 0]

CallCall ==
    /\ utilsRun.calls < MaxCalls
    /\ \E key \in CallKeys, args \in ArgLists(MaxArgs) :
         utilsRun' = [utilsRun EXCEPT !.key = key, !.args = args,
                                      !.result = Call(utilsRun.object, key, args),
                                      !.calls = @ + 1]
    /\ UNCHANGED << cmakeStarted, cmakePid, cmakePipe, configured, postConfiguration,
                    postHandshake, targets, kitSetting, configuration, probes, prompts,
                    timers, alive, signalled, nextPid, wire, helloDue, disposed, ev,
                    stream, fed, sentCount >>

NextCall == CallCall

SpecCall == InitCall /\ [][NextCall]_vars

(***************************************************************************)
(* The settings namespace (utils.ts 302-401), for one registered setting:  *)
(* its value, the value the workspace state holds for it, and for each     *)
(* listener of its event the values the listener was called with.          *)
(***************************************************************************)
SettingValues == {"undefined", "msvc", "gcc"}

\* register (utils.ts 326-337): the value is the one the workspace state holds.
SettingsRegister(stored) == [value |-> stored, persisted |-> stored, heard |-> << >>]

\* get (utils.ts 353-356).
SettingsGet(setting) == setting.value

\* event.fire(value): every listener is called once with the value.
SettingsFire(setting, value) ==
    [setting EXCEPT !.heard = [l \in DOMAIN @ |-> Append(@[l], value)]]

SettingsSet_AlwaysFires(setting, value) ==
    SettingsFire([setting EXCEPT !.value = value, !.persisted = value], value)

\* set (utils.ts 369-377).
SettingsSet(setting, value) ==
    IF setting.value # value
    THEN SettingsFire([setting EXCEPT !.value = value, !.persisted = value], value)
    ELSE setting

\* on (utils.ts 390-399): the listener is registered, then called once with
\* the current value.
SettingsOn(setting) == [setting EXCEPT !.heard = Append(@, << setting.value >>)]

InitSettings ==
    /\ InitAs(Loaded("undefined", "undefined"))
    /\ disposed = FALSE
    /\ stream = NoStream
    /\ fed = << >>
    /\ sentCount = NoCount
    /\ \E stored \in SettingValues :
         utilsRun = [helper |-> "settings", setting |-> SettingsRegister(stored),
                     op |-> "register", arg |-> stored, calls |-> 0]

SettingsUnchanged ==
    UNCHANGED << cmakeStarted, cmakePid, cmakePipe, configured, postConfiguration,
                 postHandshake, targets, kitSetting, configuration, probes, prompts,
                 timers, alive, signalled, nextPid, wire, helloDue, disposed, ev,
                 stream, fed, sentCount >>

SettingsSetCall ==
    /\ utilsRun.calls < MaxSettingOps
    /\ \E value \in SettingValues :
         utilsRun' = [utilsRun EXCEPT !.setting = SettingsSet(@, value),
                                      !.op = "set", !.arg = value, !.calls = @ + 1]
    /\ SettingsUnchanged

SettingsOnCall ==
    /\ utilsRun.calls < MaxSettingOps
    /\ Len(utilsRun.setting.heard) < MaxListeners
    /\ utilsRun' = [utilsRun EXCEPT !.setting = SettingsOn(@),
                                    !.op = "on", !.arg = SettingsGet(utilsRun.setting),
                                    !.calls = @ + 1]
    /\ SettingsUnchanged

NextSettings ==
    \/ SettingsSetCall
    \/ SettingsOnCall

SpecSettings == InitSettings /\ [][NextSettings]_vars

(***************************************************************************)
(* The dependent chain over the life of a connected server: its data       *)
(* events and its exit, the commands that configure, and a tally of the    *)
(* requests sent.                                                          *)
(***************************************************************************)
InitChain ==
    /\ \E variant \in Variants : InitAs([Connected(variant) EXCEPT !.helloDue = TRUE])
    /\ disposed = FALSE
    /\ stream = NoStream
    /\ utilsRun = NoRun
    /\ fed = << >>
    /\ sentCount = [NoCount EXCEPT !.counting = TRUE]

ChainData == DataEventUpTo(ChainMaxWire)
ChainConfigure == sentCount.configure < ChainMaxSent /\ ConfigureUpTo(ChainMaxWire)
ChainBuild == sentCount.configure < ChainMaxSent /\ BuildUpTo(ChainMaxWire)

NextChain ==
    \/ ChainData
    \/ ChainConfigure
    \/ ChainBuild
    \/ ServerExit

SpecChain == InitChain /\ [][NextChain]_vars

(***************************************************************************)
(* The handshakes of the servers of a session: the data events of each     *)
(* server, its exit, and the restarts a change of the kit causes.          *)
(***************************************************************************)
HandProbeDone == ProbeDoneUpTo(HandMaxProcs)
HandSelectKit == SelectKitUpTo(HandMaxPending)

NextHandshake ==
    \/ DataEvent
    \/ HandProbeDone
    \/ HandSelectKit
    \/ PipeConnected
    \/ ServerExit

SpecHandshake == InitReceive /\ [][NextHandshake]_vars

(***************************************************************************)
(* Verbs pending on a configuration: a connected server with a kit and a   *)
(* variant selected that answers every request, and the three verbs.  The  *)
(* server is a process of its own, so its answer to a request that waits   *)
(* is weakly fair.                                                         *)
(***************************************************************************)
InitPending ==
    /\ \E variant \in Variants \ {"undefined"} : InitAs(Connected(variant))
    /\ disposed = FALSE
    /\ stream = NoStream
    /\ utilsRun = NoRun
    /\ fed = << >>
    /\ sentCount = NoCount

PendingReply == ServerReplyWith(SessionCodeModels)
PendingBuild == BuildUpTo(PendingMaxWire)
PendingClean == CleanUpTo(PendingMaxWire)
PendingInstall == InstallUpTo(PendingMaxWire)

NextPending ==
    \/ PendingReply
    \/ PendingBuild
    \/ PendingClean
    \/ PendingInstall

SpecPending == InitPending /\ [][NextPending]_vars /\ WF_vars(PendingReply)

(***************************************************************************)
(* Settings events on a session that configures: the chain of a connected  *)
(* server, the settings events, and the restarts they cause.               *)
(***************************************************************************)
NextReconfigure ==
    \/ ServerHello
    \/ ServerReply
    \/ Configure
    \/ SettingsChanged
    \/ LifeProbeDone
    \/ PipeConnected
    \/ ServerExit

SpecReconfigure == InitParse /\ [][NextReconfigure]_vars

(***************************************************************************)
(* Properties.                                                             *)
(***************************************************************************)
\* The module state of cmake.ts and of the processes around it, but for the
\* configured flag.
EngineButConfigured ==
    << cmakeStarted, cmakePid, cmakePipe, postConfiguration, postHandshake,
       targets, kitSetting, configuration, probes, prompts, timers, alive,
       signalled, nextPid, wire, helloDue >>

\* C1: a build() on a running, unconfigured session with a kit sends exactly
\* one configure request, launches nothing yet and stores its launch; the
\* codemodel reply that arrives while the launch is stored launches the build
\* exactly once and empties the slot; and a build is launched by nothing
\* else than that reply or a build() on a configured session.
C1_BuildAfterConfigure ==
    [][ /\ ( /\ "build" \in ev'.log
             /\ cmakePid # NoPid /\ cmakePipe # "null"
             /\ ~configured
             /\ kitSetting # "undefined" )
           => ( /\ ev'.sent = << "configure" >>
                /\ ev'.launched = << >>
                /\ postConfiguration' = "launchBuild" )
        /\ ( "codemodel" \in ev'.log /\ postConfiguration = "launchBuild" )
           => ( ev'.launched = << "build" >> /\ postConfiguration' = "null" )
        /\ ( "build" \in SeqToSet(ev'.launched) )
           => ( /\ ev'.launched = << "build" >>
                /\ \/ "codemodel" \in ev'.log /\ postConfiguration = "launchBuild"
                   \/ "build" \in ev'.log /\ configured )
      ]_vars

\* C2: a reply with a foreign cookie changes nothing of the engine and sends
\* and launches nothing, whatever it replies to.
C2_ForeignReplyIgnored ==
    [][ ("foreignCookie" \in ev'.log)
          => ( /\ UNCHANGED << EngineButConfigured, configured >>
               /\ ev'.sent = << >>
               /\ ev'.launched = << >> )
      ]_vars

\* A foreign reply arrived while the session waited for its codemodel reply
\* with a build stored.
C2_Witness ==
    /\ "foreignCookie" \in ev.log
    /\ wire = << "codemodel" >>
    /\ configured
    /\ postConfiguration = "launchBuild"

\* C3: the dirty signal makes the configured flag false and leaves the rest
\* of the engine as it was: targets, slots, pid, pipe, the request waiting for
\* its reply; nothing is sent or launched.
C3_DirtyClearsConfiguredOnly ==
    [][ ("dirty" \in ev'.log)
          => ( /\ configured' = FALSE
               /\ UNCHANGED EngineButConfigured
               /\ ev'.sent = << >>
               /\ ev'.launched = << >> )
      ]_vars

\* The dirty signal arrived in the middle of a configure chain, with targets
\* of an earlier chain in the model.
C3_Witness ==
    /\ "dirty" \in ev.log
    /\ wire = << "codemodel" >>
    /\ targets # << >>
    /\ ~configured

\* C4: the exit notification of a subprocess that stop() signalled, arriving
\* before another server was spawned, is logged as a stop and never as an
\* unexpected stop, whatever the exit code.
C4_StoppedExitIsIntentional ==
    [][ \A p \in alive :
          ( /\ "exit" \in ev'.log
            /\ p \notin alive'
            /\ p \in signalled
            /\ nextPid = p + 1 )
          => ( "stopped" \in ev'.log /\ "unexpected" \notin ev'.log )
      ]_vars

\* The first server was stopped, then exited with a non-zero code, and the
\* exit was logged as a stop.
C4_Witness ==
    /\ {"exit", "exitNonZero", "stopped"} \subseteq ev.log
    /\ 1 \in signalled
    /\ 1 \notin alive
    /\ nextPid = 2

\* C5: at most one server subprocess that was not told to terminate is alive.
C5_SingleSession == Cardinality(alive \ signalled) <= 1

\* C6: a stream of frames whose text is JSON, once delivered in full, has
\* dispatched the messages that its delivery in one data event dispatches,
\* however the socket cut it into data events.
C6_ChunkInvariance ==
    ( /\ stream.all # << >>
      /\ stream.pos = Len(stream.all)
      /\ IsFrames(stream.all)
      /\ Len(stream.all) = 4 * Len(Decode(stream.all)) )
    => fed = OnData(Cur("data"), stream.all).dispatched

\* C7: a data event that holds whole frames dispatches the message of every
\* frame whose text is JSON, in order; when none of its frames is JSON the
\* engine is left as it was.
C7_FramesOfOneEvent ==
    [][ LET data == SubSeq(stream.all, stream.pos + 1, stream'.pos)
        IN  ( /\ stream'.pos > stream.pos
              /\ IsFrames(SubSeq(stream.all, 1, stream.pos))
              /\ IsFrames(data) )
            => /\ fed' = fed \o Decode(data)
               /\ Decode(data) = << >> =>
                    UNCHANGED << EngineButConfigured, configured >>
      ]_vars

\* The target types the extension supports, and the comparison of a
\* configuration name with the variant, written without the parser.
Supported == {"EXECUTABLE", "SHARED_LIBRARY", "STATIC_LIBRARY", "UTILITY"}

Spellings == { {"Debug", "DEBUG", "debug"}, {"Release", "RELEASE", "release"} }

SameVariant(name, variant) ==
    /\ variant # "undefined"
    /\ \/ name = variant
       \/ \E sp \in Spellings : {name, variant} \subseteq sp

\* The declarations of supported, named targets in the projects of the
\* configurations that match the variant.
Declared(codemodel, variant) ==
    IF ~codemodel.hasConfigurations THEN {}
    ELSE LET cs == codemodel.configurations
         IN  UNION { UNION { { cs[i].projects[j].targets[k] :
                                 k \in { k \in 1..Len(cs[i].projects[j].targets) :
                                           /\ cs[i].projects[j].targets[k].name # "undefined"
                                           /\ cs[i].projects[j].targets[k].type \in Supported } } :
                             j \in { j \in 1..Len(cs[i].projects) : cs[i].projects[j].hasTargets } } :
                     i \in { i \in 1..Len(cs) :
                               SameVariant(cs[i].name, variant) /\ cs[i].hasProjects } }

NoMatch(codemodel, variant) ==
    \/ ~codemodel.hasConfigurations
    \/ \A i \in 1..Len(codemodel.configurations) :
          ~SameVariant(codemodel.configurations[i].name, variant)

\* C8: getTargets returns "[all]" followed by the names of the target model,
\* sends nothing and changes nothing; after a codemodel reply the model holds,
\* once each, exactly the names of the supported named targets declared in
\* the configurations matching the variant, each with the kind of one of its
\* declarations; Debug with app:EXECUTABLE and gen:UTILITY gives
\* "[all]", "app", "gen".
C8_TargetsOfCodemodel ==
    [][ /\ ("getTargets" \in ev'.log)
           => ( /\ UNCHANGED << EngineButConfigured, configured >>
                /\ ev'.sent = << >>
                /\ Len(ev'.ret) = Len(targets) + 1
                /\ ev'.ret[1] = "[all]"
                /\ \A i \in 1..Len(targets) : ev'.ret[i + 1] = targets[i].name )
        /\ ("codemodel" \in ev'.log)
           => ( /\ { targets'[i].name : i \in 1..Len(targets') }
                     = { d.name : d \in Declared(ev'.payload, configuration) }
                /\ Cardinality({ targets'[i].name : i \in 1..Len(targets') }) = Len(targets')
                /\ \A i \in 1..Len(targets') :
                      \E d \in Declared(ev'.payload, configuration) :
                         d.name = targets'[i].name /\ GetType(d.type) = targets'[i].type
                /\ (ev'.payload = DebugOnly /\ configuration = "Debug")
                      => GetTargetsOf(targets') = << "[all]", "app", "gen" >> )
      ]_vars

\* A codemodel reply was parsed whose object library, between lib and app,
\* was left out, and whose project without targets was passed over.
C8_Witness ==
    /\ "codemodel" \in ev.log
    /\ configuration = "Debug"
    /\ GetTargetsOf(targets) = << "[all]", "lib", "app", "dll" >>

C10_NoMatchLeavesEmpty ==
    [][ ( "codemodel" \in ev'.log /\ NoMatch(ev'.payload, configuration) )
        => ( targets' = << >> /\ GetTargetsOf(targets') = << "[all]" >> )
      ]_vars

\* Variant Debug against a reply with configuration Release alone.
C10_Witness ==
    /\ "codemodel" \in ev.log
    /\ configuration = "Debug"
    /\ ev.payload = ReleaseOnly
    /\ GetTargetsOf(targets) = << "[all]" >>

\* C11: the target model is empty at first and changes only when a codemodel
\* reply is processed; after a reply that parsed, every entry of the model
\* is a supported named target that this reply declares for the variant,
\* whatever the model held before.
C11_ReplaceNotMerge ==
    /\ targets = << >>
    /\ [][ /\ (targets' # targets) => ("codemodel" \in ev'.log)
           /\ ("ok" \in ev'.log)
              => ( /\ "codemodel" \in ev'.log
                   /\ targets' # << >>
                   /\ \A i \in 1..Len(targets') :
                         \E d \in Declared(ev'.payload, configuration) :
                            d.name = targets'[i].name )
      ]_vars

\* Variant Release: a reply that declares app alone was parsed, and app alone
\* is in the model.
C11_Witness ==
    /\ "ok" \in ev.log
    /\ configuration = "Release"
    /\ ev.payload = ReleaseOnly
    /\ targets = << [name |-> "app", type |-> Executable] >>

\* Whether a configuration of the reply matches the variant.
Matched(codemodel, variant) == codemodel.hasConfigurations /\ ~NoMatch(codemodel, variant)

\* C12: a codemodel reply with a configurations list is reported as "couldn't
\* find any target" exactly when a configuration matched and declared no
\* supported named target, and as "couldn't find configuration" exactly when
\* no configuration matched.
C12_ParseErrorsTellApart ==
    [][ ("codemodel" \in ev'.log /\ ev'.payload.hasConfigurations)
        => ( /\ ("noTarget" \in ev'.log)
                  <=> ( /\ Matched(ev'.payload, configuration)
                        /\ Declared(ev'.payload, configuration) = {} )
             /\ ("noConfiguration" \in ev'.log)
                  <=> NoMatch(ev'.payload, configuration) )
      ]_vars

\* The pattern of a verb in one step: verb is the tag of the call, closure
\* what it stores, tool what it launches.
VerbPattern(verb, closure, tool) ==
    (verb \in ev'.log)
    => /\ (cmakePid = NoPid \/ cmakePipe = "null")
          => ( /\ UNCHANGED << EngineButConfigured, configured >>
               /\ ev'.sent = << >>
               /\ ev'.launched = << >> )
       /\ (cmakePid # NoPid /\ cmakePipe # "null" /\ ~configured)
          => ( /\ postConfiguration' = closure
               /\ ev'.launched = << >>
               /\ "deleteCache" \notin ev'.log
               /\ ev'.sent = IF kitSetting # "undefined" THEN << "configure" >> ELSE << >>
               /\ configured' = configured )
       /\ (cmakePid # NoPid /\ cmakePipe # "null" /\ configured)
          => ( /\ ev'.sent = << >>
               /\ ev'.launched = << tool >>
               /\ UNCHANGED << EngineButConfigured, configured >> )

\* C13: build, clean and install do nothing when the session is not
\* running, store their launch and call configure(false) when it is running
\* and not configured, and launch their tool at once, without a configure
\* request, when it is running and configured.
C13_VerbPattern ==
    [][ /\ VerbPattern("build", "launchBuild", "build")
        /\ VerbPattern("clean", "launchClean", "clean")
        /\ VerbPattern("install", "launchInstall", "install")
      ]_vars

\* C14: configure() on a session that is not running, or with no kit
\* selected, logs the reason, sends nothing, deletes no cache file and
\* leaves the engine as it was.
C14_ConfigureFailsLocally ==
    [][ ( /\ "configure" \in ev'.log
          /\ (cmakePid = NoPid \/ cmakePipe = "null" \/ kitSetting = "undefined") )
        => ( /\ UNCHANGED << EngineButConfigured, configured >>
             /\ ev'.sent = << >>
             /\ ev'.launched = << >>
             /\ "deleteCache" \notin ev'.log
             /\ ("notRunning" \in ev'.log) <=> (cmakePid = NoPid \/ cmakePipe = "null")
             /\ ("noKit" \in ev'.log) <=> (cmakePid # NoPid /\ cmakePipe # "null") )
      ]_vars

\* configure() was called on a running, connected session with no kit
\* selected.
C14_Witness ==
    /\ {"configure", "noKit"} \subseteq ev.log
    /\ cmakePid # NoPid
    /\ cmakePipe = "open"
    /\ kitSetting = "undefined"
    /\ ev.sent = << >>

\* C15: at most one request written by the engine waits for its reply.
C15_NoPipelining == Len(wire) <= 1

\* C16: a configure request is written only on a connected pipe on which no
\* request waits for its reply.
C16_ConfigureOnlyWhenIdle ==
    [][ ("configure" \in SeqToSet(ev'.sent))
        => ( cmakePipe = "open" /\ wire = << >> )
      ]_vars

\* C17: in every state, a second stop() right after a stop() changes
\* nothing, signals no process and ends no pipe; the first one signals the
\* recorded subprocess, which was never signalled before, leaves no id
\* recorded, and signals nothing when no id is recorded.
C17_StopIdempotent ==
    LET once == StopOp([Cur("stop") EXCEPT !.log = {}])
        twice == StopOp([once EXCEPT !.log = {}])
    IN  /\ [twice EXCEPT !.log = {}] = [once EXCEPT !.log = {}]
        /\ twice.log = {}
        /\ once.pid = NoPid /\ once.pipe = "null" /\ ~once.started
        /\ cmakePid # NoPid
           => ( /\ cmakePid \notin signalled
                /\ once.signalled = signalled \cup {cmakePid}
                /\ "kill" \in once.log )
        /\ cmakePid = NoPid
           => ( once.signalled = signalled /\ "kill" \notin once.log )

\* stop() ran on a running session (dispose), and the subprocess it
\* signalled is still alive: another stop() finds nothing to do.
C17_Witness ==
    /\ disposed
    /\ cmakePid = NoPid
    /\ cmakePipe = "null"
    /\ signalled \cap alive # {}

\* C18: after an explicit stop and after the exit of a subprocess was
\* handled, no subprocess id and no pipe are recorded, the configured flag
\* is false and both continuation slots are empty.
C18_FullReset ==
    [][ ( (disposed' /\ ~disposed) \/ "exit" \in ev'.log )
        => ( /\ cmakePid' = NoPid
             /\ cmakePipe' = "null"
             /\ configured' = FALSE
             /\ postConfiguration' = "null"
             /\ postHandshake' = "null" )
      ]_vars

\* C19: the exit of the subprocess whose id is recorded is logged as an
\* unexpected stop, whatever its exit code, and leaves no id, no pipe and
\* the started flag false.
C19_RecordedExitIsUnexpected ==
    [][ ( /\ "exit" \in ev'.log
          /\ cmakePid # NoPid
          /\ cmakePid \in alive
          /\ cmakePid \notin alive' )
        => ( /\ "unexpected" \in ev'.log
             /\ cmakePid' = NoPid
             /\ cmakePipe' = "null"
             /\ cmakeStarted' = FALSE )
      ]_vars

\* C20: a start attempt that ends without a server (no kit selected, the
\* version below the minimum, the warning about an unreadable version
\* declined) leaves no subprocess id, no pipe and the started flag false.
C20_FailedStartIsDisconnected ==
    [][ ( \/ "noKit" \in ev'.log
          \/ probes' = probes - 1 /\ prompts' = prompts /\ nextPid' = nextPid
          \/ prompts' = prompts - 1 /\ probes' = probes /\ nextPid' = nextPid )
        => ( /\ cmakeStarted' = FALSE
             /\ cmakePid' = NoPid
             /\ cmakePipe' = "null" )
      ]_vars

\* (major, minor) below (3, 12) in major-then-minor order.
Below(major, minor) == major < MinMajor \/ (major = MinMajor /\ minor < MinMinor)

\* C21: when the executable cannot be located or executed, utils.execute
\* still settles its promise with an empty stdout, and start reports
\* "couldn't start CMake", opens no warning about an unreadable version and
\* launches no server.
C21_MissingExecutableFailsFast ==
    [][ ("versionResult" \in ev'.log /\ ev'.probed.error # "")
        => ( /\ ev'.probed.settled \in {"fulfilled", "rejected"}
             /\ ev'.probed.stdout = << >>
             /\ "couldntStart" \in ev'.log
             /\ prompts' = prompts
             /\ nextPid' = nextPid )
      ]_vars

\* C22: for every version that was read, the server is launched exactly
\* when (major, minor) is not below (3, 12), and the start is aborted exactly
\* when it is below; with a text in which no version can be read, a warning
\* is opened, and the server is launched only by the answer yes.
C22_VersionGate ==
    [][ /\ ( /\ "versionResult" \in ev'.log
             /\ ev'.probed.error = ""
             /\ MatchVersion(ev'.probed.stdout).matched )
           => LET version == MatchVersion(ev'.probed.stdout)
              IN  /\ prompts' = prompts
                  /\ (nextPid' = nextPid + 1) <=> ~Below(version.major, version.minor)
                  /\ (nextPid' = nextPid /\ cmakePid' = cmakePid)
                        <=> Below(version.major, version.minor)
        /\ ( /\ "versionResult" \in ev'.log
             /\ ev'.probed.error = ""
             /\ ~MatchVersion(ev'.probed.stdout).matched )
           => ( prompts' = prompts + 1 /\ nextPid' = nextPid )
        /\ (prompts' = prompts - 1 /\ probes' = probes)
           => ( nextPid' \in {nextPid, nextPid + 1} )
      ]_vars

\* Messages a caller may hand to sendMessage, with and without fields of
\* its own for the cookie and the protocol version.
RawMessages ==
    { [type |-> "configure"],
      [type |-> "configure", cookie |-> ForeignCookie],
      [type |-> "handshake", protocolVersion |-> [major |-> 2]],
      [type |-> "compute", cookie |-> ForeignCookie, protocolVersion |-> [major |-> 2]] }

\* C23: every request written carries the session cookie and the protocol
\* version {major: 1}, whatever the caller's message held in those fields,
\* keeps the other fields of the caller, and is written between the start
\* marker and the end marker; a handler writes nothing else, and the cookie
\* is the same before and after a restart.
C23_RequestsStamped ==
    /\ \A message \in RawMessages :
          /\ Stamp(message).cookie = BaseCookie
          /\ Stamp(message).protocolVersion = [major |-> 1]
          /\ DOMAIN Stamp(message) = DOMAIN message \cup {"cookie", "protocolVersion"}
          /\ Stamp(message).type = message.type
    /\ [][ /\ Len(ev'.written) = 3 * Len(ev'.sent)
           /\ Len(wire') <= Len(wire) + Len(ev'.sent)
           /\ \A i \in 1..Len(ev'.sent) :
                 /\ ev'.sent[i] \in {"handshake", "globalSettings", "configure",
                                     "compute", "codemodel"}
                 /\ ev'.written[3 * i - 2] = StartMarker
                 /\ ev'.written[3 * i - 1].k = "json"
                 /\ ev'.written[3 * i - 1].text.type = ev'.sent[i]
                 /\ ev'.written[3 * i - 1].text.protocolVersion = [major |-> 1]
                 /\ ev'.written[3 * i - 1].text.cookie = BaseCookie
                 /\ ev'.written[3 * i] = EndMarker
         ]_vars

\* A configure request was written to the second server, after a restart.
C23_Witness ==
    /\ ev.sent = << "configure" >>
    /\ cmakePid = 2
    /\ 1 \in signalled
    /\ Len(ev.written) = 3
    /\ ev.written[2].text.cookie = BaseCookie

\* The module state of cmake.ts, the settings and the processes: all but
\* the bookkeeping of the requests the server still has to answer.
EngineAndProcesses ==
    << cmakeStarted, cmakePid, cmakePipe, configured, postConfiguration,
       postHandshake, targets, kitSetting, configuration, probes, prompts,
       timers, alive, signalled, nextPid >>

ChainRequests == {"handshake", "globalSettings", "configure", "compute", "codemodel"}

\* The messages the claim lists as carrying no state change.
CarriesNothing(m) ==
    \/ m.type \in {"undefined", "message", "progress", "error"}
    \/ m.type \notin {"undefined", "message", "progress", "error", "signal", "hello", "reply"}
    \/ m.type = "signal" /\ m.name # "dirty"
    \/ m.type = "reply" /\ m.cookie = BaseCookie /\ m.inReplyTo \notin ChainRequests

\* The messages the claim lists as the only ones with an effect.
MayAct(m) ==
    \/ m.type = "hello"
    \/ m.type = "signal" /\ m.name = "dirty"
    \/ m.type = "reply" /\ m.cookie = BaseCookie /\ m.inReplyTo \in ChainRequests

\* C24: a message without type, of an unknown type, of type message,
\* progress or error, a signal other than dirty and a reply with the session
\* cookie to an unknown request leave the engine as it was and send and
\* launch nothing; a data event that changes the engine, sends or launches
\* holds a hello, a dirty signal or a reply with the session cookie to a
\* request of the chain.
C24_OnlyChainMessagesAct ==
    [][ ("dataEvent" \in ev'.log /\ Len(fed') = 1)
        => LET m == fed'[1]
               acted == \/ EngineAndProcesses' # EngineAndProcesses
                        \/ ev'.sent # << >>
                        \/ ev'.launched # << >>
           IN  /\ CarriesNothing(m) => ~acted
               /\ acted => MayAct(m)
      ]_vars

\* The server answered the configure request of a build with an error: the
\* engine is as it was, the launch of the build still stored.
C24_Witness ==
    /\ "dataEvent" \in ev.log
    /\ fed = << ErrorMsg("configure") >>
    /\ postConfiguration = "launchBuild"
    /\ ev.sent = << >>
    /\ ~configured

RestartKeys == {"executable", "generator", "buildDirectory"}

\* C25: a change of the kit, or a settings event that affects executable,
\* generator or buildDirectory, signals the recorded subprocess, spawns
\* nothing itself and leaves a start attempt under way (a version check or
\* a warning open, or the attempt ended for want of a kit); an event that
\* affects executable or generator deletes the cache file and one that
\* affects buildDirectory deletes the build directory; an event that affects
\* configureArguments or installDirectory alone makes the configured flag
\* false and changes nothing else.
C25_ChangeIsStopThenStart ==
    [][ /\ ( \/ kitSetting' # kitSetting
             \/ "settingsChanged" \in ev'.log /\ ev'.changed \cap RestartKeys # {} )
           => ( /\ cmakePid # NoPid => cmakePid \in signalled'
                /\ cmakePid' = NoPid
                /\ nextPid' = nextPid
                /\ cmakeStarted'
                /\ probes' + prompts' > 0 \/ "noKit" \in ev'.log )
        /\ ( "settingsChanged" \in ev'.log /\ ev'.changed \cap {"executable", "generator"} # {} )
           => "deleteCache" \in ev'.log
        /\ ( "settingsChanged" \in ev'.log /\ "buildDirectory" \in ev'.changed )
           => "nuke" \in ev'.log
        /\ ( "settingsChanged" \in ev'.log /\ ev'.changed \cap RestartKeys = {} )
           => ( /\ configured' = FALSE
                /\ UNCHANGED EngineButConfigured
                /\ {"deleteCache", "nuke"} \cap ev'.log = {} )
      ]_vars

\* The token sequences of the urls of the model.
Paths == { Split(url) : url \in Urls }

IsPrefix(p, q) == Len(p) <= Len(q) /\ SubSeq(q, 1, Len(p)) = p

\* C26 as stated: after setProperty(root, url, value) the value is found by
\* following the tokens of url, and every string that was found under
\* another url before the call is found there after it.
C26_SetPropertyKeepsAll ==
    (utilsRun.helper = "setProperty" /\ utilsRun.calls > 0)
    => /\ GetProperty(utilsRun.root, Split(utilsRun.url)) = Str(utilsRun.value)
       /\ \A p \in Paths \ {Split(utilsRun.url)} :
             GetProperty(utilsRun.before, p).kind = "string"
             => GetProperty(utilsRun.root, p) = GetProperty(utilsRun.before, p)

\* C26 amended: the call throws exactly when a string is found under a
\* proper prefix of the tokens, and then leaves the object as it was;
\* otherwise the value is found under the tokens, every value found before
\* under tokens that neither begin with those of the url nor begin them is
\* found there unchanged, every object passed on the way is still an
\* object, and what was found under tokens that begin with those of the
\* url is the new value or gone.
C26_SetPropertyKeepsUnrelated ==
    (utilsRun.helper = "setProperty" /\ utilsRun.calls > 0)
    => LET tokens == Split(utilsRun.url)
           blocked == \E p \in Paths :
                         /\ IsPrefix(p, tokens) /\ p # tokens
                         /\ GetProperty(utilsRun.before, p).kind = "string"
       IN  /\ utilsRun.threw <=> blocked
           /\ blocked => utilsRun.root = utilsRun.before
           /\ ~blocked =>
                /\ GetProperty(utilsRun.root, tokens) = Str(utilsRun.value)
                /\ \A p \in Paths :
                      /\ (~IsPrefix(p, tokens) /\ ~IsPrefix(tokens, p))
                         => GetProperty(utilsRun.root, p) = GetProperty(utilsRun.before, p)
                      /\ (IsPrefix(p, tokens) /\ p # tokens)
                         => GetProperty(utilsRun.root, p).kind = "object"
                      /\ (IsPrefix(tokens, p) /\ p # tokens)
                         => GetProperty(utilsRun.root, p) = Missing

\* "a.a" was set in {"a": {"": "w"}}: the object under "a" holds both.
C26_Witness ==
    /\ utilsRun.helper = "setProperty"
    /\ utilsRun.url = << "a", ".", "a" >>
    /\ ~utilsRun.threw
    /\ GetProperty(utilsRun.before, << << "a" >>, << >> >>) = Str("w")
    /\ GetProperty(utilsRun.root, << << "a" >>, << >> >>) = Str("w")
    /\ GetProperty(utilsRun.root, << << "a" >>, << "a" >> >>) = Str(utilsRun.value)

\* C27: when key is an own property of object that holds a function,
\* call(object, key, args...) calls it with the arguments as its parameters
\* and returns its result, so that onStarted called with a process id
\* receives that id; otherwise nothing is called and undefined is returned.
C27_CallPassesArguments ==
    (utilsRun.helper = "call" /\ utilsRun.calls > 0)
    => LET object == utilsRun.object
           key == utilsRun.key
           args == utilsRun.args
           own == key \in DOMAIN object /\ object[key].kind = "function"
       IN  /\ own => /\ utilsRun.result.called
                     /\ utilsRun.result.params = args
                     /\ utilsRun.result.ret = ApplyFunction(object[key], args).ret
                     /\ (key = "onStarted" /\ args = << JsNumber("1234") >>)
                           => utilsRun.result.received = JsNumber("1234")
           /\ ~own => /\ ~utilsRun.result.called
                      /\ utilsRun.result.ret = JsUndefined

\* C28: settings.set stores and persists the value and calls every listener
\* once with it exactly when the value differs from the current one, and
\* changes nothing otherwise; settings.on calls the new listener once with
\* the current value, and every later change calls it once more.
C28_SetFiresOnChangeOnly ==
    /\ [](utilsRun.helper = "settings"
            => /\ utilsRun.setting.persisted = utilsRun.setting.value
               /\ \A l \in DOMAIN utilsRun.setting.heard :
                    LET heard == utilsRun.setting.heard[l]
                    IN  /\ heard # << >>
                        /\ heard[Len(heard)] = utilsRun.setting.value
                        /\ \A i \in 1..(Len(heard) - 1) : heard[i] # heard[i + 1])
    /\ [][ (utilsRun.helper = "settings" /\ utilsRun'.calls = utilsRun.calls + 1)
           => LET before == utilsRun.setting
                  after == utilsRun'.setting
                  value == utilsRun'.arg
              IN  /\ (utilsRun'.op = "set" /\ value = before.value) => after = before
                  /\ (utilsRun'.op = "set" /\ value # before.value)
                        => /\ after.value = value
                           /\ after.persisted = value
                           /\ DOMAIN after.heard = DOMAIN before.heard
                           /\ \A l \in DOMAIN before.heard :
                                after.heard[l] = Append(before.heard[l], value)
                  /\ utilsRun'.op = "on"
                        => /\ after.value = before.value
                           /\ after.persisted = before.persisted
                           /\ after.heard = Append(before.heard, << before.value >>) ]_vars

\* A listener registered on "msvc" has heard a change to "gcc", and "gcc"
\* is then set again.
C28_Witness ==
    /\ utilsRun.helper = "settings"
    /\ utilsRun.op = "set"
    /\ utilsRun.arg = "gcc"
    /\ utilsRun.setting.value = "gcc"
    /\ utilsRun.setting.heard = << << "msvc", "gcc" >> >>
    /\ utilsRun.calls = 4

\* C29: a compute request is sent only by the handling of a configure reply
\* that carries the session cookie, and a codemodel request only by the
\* handling of a compute reply that carries it, each as the one request of
\* that handling; so at every moment no more compute requests were sent
\* than configure requests, and no more codemodel requests than compute
\* requests.
C29_ChainKeepsOrder ==
    /\ [](sentCount.counting
            => /\ sentCount.compute <= sentCount.configure
               /\ sentCount.codemodel <= sentCount.compute)
    /\ [][ /\ Occurrences(ev'.sent, "compute") > 0
              => /\ "dataEvent" \in ev'.log
                 /\ fed' = << Reply("configure", BaseCookie) >>
                 /\ ev'.sent = << "compute" >>
           /\ Occurrences(ev'.sent, "codemodel") > 0
              => /\ "dataEvent" \in ev'.log
                 /\ fed' = << Reply("compute", BaseCookie) >>
                 /\ ev'.sent = << "codemodel" >> ]_vars

\* Two configure requests went out and the chain of the first one has
\* reached its codemodel request.
C29_Witness ==
    /\ sentCount.counting
    /\ sentCount.configure = 2
    /\ sentCount.compute = 1
    /\ sentCount.codemodel = 1
    /\ ev.sent = << "codemodel" >>

\* C30: the handling of a codemodel reply that carries the session cookie
\* calls the continuation stored for the end of the configuration, once,
\* and empties the slot, whether the parse succeeded or not; the call comes
\* after the targets were rebuilt from the reply.  With an empty slot
\* nothing is called.
C30_ContinuationOnceAfterParse ==
    [][ "codemodel" \in ev'.log
        => LET rebuilt == ParseCodemodel(targets, ev'.payload, configuration).targets
               called == LaunchTool([Cur("reply") EXCEPT !.targets = rebuilt],
                                    postConfiguration)
           IN  /\ targets' = rebuilt
               /\ postConfiguration' = "null"
               /\ postConfiguration # "null"
                    => /\ "continuation" \in ev'.log
                       /\ ev'.launched = called.launched
               /\ postConfiguration = "null"
                    => /\ "continuation" \notin ev'.log
                       /\ ev'.launched = << >> ]_vars

\* The same, for the replies whose parse returns.
ContinuationWhenParseReturns ==
    [][ ("codemodel" \in ev'.log /\ "threw" \notin ev'.log)
        => LET rebuilt == ParseCodemodel(targets, ev'.payload, configuration).targets
               called == LaunchTool([Cur("reply") EXCEPT !.targets = rebuilt],
                                    postConfiguration)
           IN  /\ targets' = rebuilt
               /\ postConfiguration' = "null"
               /\ postConfiguration # "null"
                    => /\ "continuation" \in ev'.log
                       /\ ev'.launched = called.launched
               /\ postConfiguration = "null"
                    => /\ "continuation" \notin ev'.log
                       /\ ev'.launched = << >> ]_vars

ParseFailures == {"noConfigurationsField", "noConfiguration", "noTarget"}

\* C31: the configured flag turns true only in the handling of a compute
\* reply that carries the session cookie; the handling of a codemodel reply
\* whose parse fails, and of an error message of the server, leaves a true
\* flag true; and a configure called right after such a failure sends its
\* request.
C31_ConfiguredSurvivesFailure ==
    [][ /\ (~configured /\ configured')
            => /\ "dataEvent" \in ev'.log
               /\ fed' = << Reply("compute", BaseCookie) >>
        /\ ("dataEvent" \in ev'.log /\ configured
              /\ \/ ev'.log \cap ParseFailures # {}
                 \/ (Len(fed') = 1 /\ fed'[1].type = "error"))
            => configured'
        /\ ("configure" \in ev'.log
              /\ \/ ev.log \cap ParseFailures # {}
                 \/ ("dataEvent" \in ev.log /\ Len(fed) = 1 /\ fed[1].type = "error"))
            => /\ ev'.sent = << "configure" >>
               /\ "configure" \in { wire'[i] : i \in 1..Len(wire') }
      ]_vars

\* A codemodel reply without a target for the variant left the flag true,
\* and the configure called next sent its request.
C31_Witness ==
    /\ "configure" \in ev.log
    /\ ev.sent = << "configure" >>
    /\ configured
    /\ Len(fed) = 1
    /\ fed[1].inReplyTo = "codemodel"
    /\ fed[1].cookie = BaseCookie
    /\ fed[1].codemodel # NoCodemodel
    /\ targets = << >>

\* C32: a hello that lists no protocol version of major 1 is reported as an
\* unsupported protocol, sends nothing and stops the session (the
\* subprocess signalled and forgotten, the pipe closed, the started flag
\* false); any other hello sends at once one handshake request, and nothing
\* else, with the source directory, the build directory and the generator.
C32_HelloHandshakeOrStop ==
    [][ ("dataEvent" \in ev'.log /\ Len(fed') = 1 /\ fed'[1].type = "hello")
        => IF 1 \notin fed'[1].majors
           THEN /\ "unsupportedProtocol" \in ev'.log
                /\ ev'.sent = << >>
                /\ cmakePid' = NoPid
                /\ cmakePid \in signalled'
                /\ cmakePipe' = "null"
                /\ ~cmakeStarted'
           ELSE /\ ev'.sent = << "handshake" >>
                /\ Len(ev'.written) = 3
                /\ ev'.written[2].text.sourceDirectory = "getSourceDirectory"
                /\ ev'.written[2].text.buildDirectory = "getBuildDirectory"
                /\ ev'.written[2].text.generator = "generatorSetting"
      ]_vars

\* The same, but for the stop.
HelloHandshakeOrReport ==
    [][ ("dataEvent" \in ev'.log /\ Len(fed') = 1 /\ fed'[1].type = "hello")
        => IF 1 \notin fed'[1].majors
           THEN /\ "unsupportedProtocol" \in ev'.log
                /\ ev'.sent = << >>
           ELSE /\ ev'.sent = << "handshake" >>
                /\ Len(ev'.written) = 3
                /\ ev'.written[2].text.sourceDirectory = "getSourceDirectory"
                /\ ev'.written[2].text.buildDirectory = "getBuildDirectory"
                /\ ev'.written[2].text.generator = "generatorSetting"
      ]_vars

C34_RetryWhileRecorded ==
    [][ /\ (cmakePipe = "connecting" /\ cmakePipe' = "failed")
            => timers' = IF cmakePid # NoPid THEN timers + 1 ELSE timers
        /\ (cmakePid = NoPid /\ cmakePipe = "null" /\ cmakePipe' # "null")
            => cmakePid' # NoPid
      ]_vars

\* C35: whenever a handler launches the build, clean or install tool, by
\* the verb itself or as the continuation of a configuration, the
\* configured flag is true.
C35_LaunchOnlyWhenConfigured ==
    [][ ev'.launched # << >> => (configured /\ configured') ]_vars

\* The same for the launches the verbs make themselves.
VerbLaunchOnlyWhenConfigured ==
    [][ (ev'.launched # << >> /\ ev'.log \cap {"build", "clean", "install"} # {})
        => (configured /\ configured') ]_vars

ChainInFlight == \E i \in 1..Len(wire) : wire[i] \in {"configure", "compute", "codemodel"}

\* C36: a continuation is stored only while the chain of the call that
\* stored it is under way, so that the codemodel reply of no other chain can
\* call it: when the configure of the call was not sent, or its chain was
\* cut by an error of the server or by a stop, the slot is empty.
C36_ContinuationOfItsOwnChain ==
    postConfiguration # "null" => ChainInFlight

\* A verb called on the running, unconfigured session stored its launch and
\* sent its configure request.
Stored(verb, closure) ==
    /\ verb \in ev.log
    /\ ev.sent = << "configure" >>
    /\ postConfiguration = closure

\* C37: when the server answers every request, the tool of every verb that
\* was called on the running, unconfigured session and stored its launch is
\* launched in the end, whatever verbs are called after it.
C37_EveryPendingVerbLaunches ==
    /\ [](Stored("build", "launchBuild") => <>("build" \in SeqToSet(ev.launched)))
    /\ [](Stored("clean", "launchClean") => <>("clean" \in SeqToSet(ev.launched)))
    /\ [](Stored("install", "launchInstall") => <>("install" \in SeqToSet(ev.launched)))

\* The same for the verb called last: a stored launch that no other verb
\* call follows is made in the end.
LastPendingVerbLaunches ==
    /\ []((Stored("build", "launchBuild") /\ [](postConfiguration \in {"null", "launchBuild"}))
            => <>("build" \in SeqToSet(ev.launched)))
    /\ []((Stored("clean", "launchClean") /\ [](postConfiguration \in {"null", "launchClean"}))
            => <>("clean" \in SeqToSet(ev.launched)))
    /\ []((Stored("install", "launchInstall") /\ [](postConfiguration \in {"null", "launchInstall"}))
            => <>("install" \in SeqToSet(ev.launched)))

\* C38: the exit of a subprocess that stop() signalled and that is no longer
\* the recorded one leaves the recorded id and the pipe of its successor as
\* they are, logs no unexpected termination, and leaves every subprocess
\* that is alive and was not signalled recorded.
C38_OldExitLeavesNewSession ==
    [][ \A p \in alive \ alive' :
          (p \in signalled /\ p # cmakePid)
          => /\ cmakePid' = cmakePid
             /\ cmakePipe' = cmakePipe
             /\ "unexpected" \notin ev'.log
             /\ \A q \in alive' \ signalled' : q = cmakePid'
      ]_vars

\* A start attempt is under way: its version check or its warning is open.
\* (The spawn follows the check in the same step.)
StartInProgress == probes > 0 \/ prompts > 0

\* C39: the started flag is true in every state in which a start attempt is
\* under way or the id of a subprocess is recorded.
C39_StartedCoversAttempt ==
    (StartInProgress \/ cmakePid # NoPid) => cmakeStarted

\* C40: after every settings event that affects configureArguments or
\* installDirectory the configured flag is false, whatever other settings
\* the event affects.
C40_ArgumentsChangeUnconfigures ==
    [][ ("settingsChanged" \in ev'.log
           /\ ev'.changed \cap {"configureArguments", "installDirectory"} # {})
        => ~configured' ]_vars

\* The same for the events that affect no setting listed before these two
\* in _configChanges.
ArgumentsChangeAloneUnconfigures ==
    [][ ("settingsChanged" \in ev'.log
           /\ ev'.changed \cap {"configureArguments", "installDirectory"} # {}
           /\ ev'.changed \cap {"executable", "generator"} = {}
           /\ ("buildDirectory" \in ev'.changed => "configureArguments" \in ev'.changed))
        => ~configured' ]_vars

====
